---- MODULE Spec2Model ----
(***************************************************************************)
(* Verification model of the point-cloud processing code of                *)
(* RENE-CloudStream3D: the XYZ parser (src/src/parser.js), the oriented    *)
(* selection box (src/src/selection.js), the Z inversion of the viewer     *)
(* (src/src/ui.js), the file-load handler (src/unnamed/part_003) and the   *)
(* profile slice extractor (code listed in src/DEPLOYMENT_FIX_SUMMARY.md). *)
(*                                                                         *)
(* Numbers.  Coordinates are fixed-point integers counted in units of      *)
(* 1/Unit, so that the midpoint (min + max) / 2 of two parsed integers is  *)
(* exact.  Colour components are fixed-point integers in units of          *)
(* 1/ColorScale.  Float32 rounding is outside the model.                   *)
(***************************************************************************)
EXTENDS Integers, Sequences, FiniteSets, TLC

VARIABLES
  content,          \* text handed to parseXYZFile / text of the file being loaded
  parsed,           \* value returned by the last parseXYZFile call, or Null
  pointCloud,       \* viewer.pointCloud: [positions, colors] or Null
  originalColors,   \* selection.js originalColors: colour array or Null
  coordinateOffset, \* selection.js coordinateOffset
  viewerOffset,     \* PointCloudViewer.coordinateOffset
  selectionBox,     \* selectionBox [position, quaternion, scale]
  boxSettings,      \* ui.boxSettings [hideOutside, visible]
  lastCall,         \* the last operation with its inputs and its return value
  hist,             \* history: dataset number, raw points, snapshot origin
  probe,            \* inputs of the pure-function specifications
  isDefaultCloud,   \* viewer.isDefaultCloud (explosionVelocities is set with it)
  measurementTool,  \* the MeasurementTool object
  profileTool,      \* the ProfileTool object
  toolSettings,     \* ui.js measurementSettings.active / profileSettings.active
  loader,           \* file loads in progress and the loading spinner
  clickListeners    \* click listeners of the renderer element, in order

vars == <<content, parsed, pointCloud, originalColors, coordinateOffset,
          viewerOffset, selectionBox, boxSettings, lastCall, hist, probe,
          isDefaultCloud, measurementTool, profileTool, toolSettings, loader,
          clickListeners>>

\* null and non-null references: Null is <<>>, a value v is <<v>>
Null == <<>>
Some(v) == <<v>>
IsNull(o) == Len(o) = 0
Val(o) == o[1]

----------------------------------------------------------------------------
(* Bounds and numeric conventions *)

Unit == 2
ColorScale == 100
Infinity == 1000000
MaxLines == 3

Abs(n) == IF n < 0 THEN -n ELSE n
Min2(a, b) == IF a < b THEN a ELSE b
Max2(a, b) == IF a > b THEN a ELSE b

----------------------------------------------------------------------------
(* Text: a JavaScript string as a sequence of one-character strings *)

Digits == {"0", "1", "2", "3", "4", "5", "6", "7", "8", "9"}
Signs == {"+", "-"}
Whitespace == {" ", "\n", "\t"}

DigitVal(c) ==
  CASE c = "0" -> 0 [] c = "1" -> 1 [] c = "2" -> 2 [] c = "3" -> 3
    [] c = "4" -> 4 [] c = "5" -> 5 [] c = "6" -> 6 [] c = "7" -> 7
    [] c = "8" -> 8 [] c = "9" -> 9

\* index of the first position >= i of s whose character is not in set cls
RECURSIVE RunEnd(_, _, _)
RunEnd(s, i, cls) ==
  IF i <= Len(s) /\ s[i] \in cls THEN RunEnd(s, i + 1, cls) ELSE i

\* One number group of lineRegex, [+-]?\d*\.?\d+(?:[eE][+-]?\d+)?, matched
\* greedily at position i.  The texts of the model hold no "." and no
\* exponent letter, which leaves [+-]?\d+ : the result is the position after
\* the token, or 0 when no token starts at i.
TokenEnd(s, i) ==
  LET d == IF i <= Len(s) /\ s[i] \in Signs THEN i + 1 ELSE i
      e == RunEnd(s, d, Digits)
  IN  IF e > d THEN e ELSE 0

\* parseFloat of a token s[i..e-1] of the shape [+-]?\d+, in units of 1/Unit
RECURSIVE DigitsValue(_, _, _, _)
DigitsValue(s, i, e, acc) ==
  IF i >= e THEN acc ELSE DigitsValue(s, i + 1, e, 10 * acc + DigitVal(s[i]))

parseFloat(s, i, e) ==
  IF s[i] = "-" THEN -(Unit * DigitsValue(s, i + 1, e, 0))
  ELSE IF s[i] = "+" THEN Unit * DigitsValue(s, i + 1, e, 0)
  ELSE Unit * DigitsValue(s, i, e, 0)

\* lineRegex matched piece by piece: token \s+ token \s+ token.  g holds the
\* boundaries found so far, <<start of group 1, end of group 1, start of
\* group 2, end of group 2, start of group 3, end of group 3>>: after an odd
\* number of them a number group is due, after an even number a \s+.
\* The result is [ok, from, to, x, y, z] with the match being s[from..to-1].
RECURSIVE MatchGroups(_, _)
MatchGroups(s, g) ==
  IF Len(g) = 6
  THEN [ok |-> TRUE, from |-> g[1], to |-> g[6],
        x |-> parseFloat(s, g[1], g[2]),
        y |-> parseFloat(s, g[3], g[4]),
        z |-> parseFloat(s, g[5], g[6])]
  ELSE LET p == g[Len(g)]
           e == IF Len(g) % 2 = 1 THEN TokenEnd(s, p) ELSE RunEnd(s, p, Whitespace)
       IN  IF e = 0 \/ e = p
           THEN [ok |-> FALSE, from |-> g[1], to |-> g[1], x |-> 0, y |-> 0, z |-> 0]
           ELSE MatchGroups(s, Append(g, e))

\* lineRegex tried at start position i
MatchAt(s, i) == MatchGroups(s, <<i>>)

\* lineRegex.exec(content) with the g flag: the leftmost match that starts at
\* or after lastIndex; ok = FALSE stands for the null result.
RECURSIVE RegexExec(_, _)
RegexExec(s, lastIndex) ==
  IF lastIndex > Len(s)
  THEN [ok |-> FALSE, from |-> lastIndex, to |-> lastIndex, x |-> 0, y |-> 0, z |-> 0]
  ELSE LET m == MatchAt(s, lastIndex)
       IN  IF m.ok THEN m ELSE RegexExec(s, lastIndex + 1)

----------------------------------------------------------------------------
(* Float32Array: a fixed-length array; writes outside it are dropped *)

Float32Array(n) == [i \in 1..n |-> 0]

\* arr[index] = v with a 0-based index
ArraySet(arr, index, v) ==
  IF index >= 0 /\ index < Len(arr) THEN [arr EXCEPT ![index + 1] = v] ELSE arr

\* arr[index] with a 0-based index
ArrayGet(arr, index) == arr[index + 1]

\* target.set(source): copies source to the front of target
TypedArraySet(target, source) ==
  [i \in 1..Len(target) |-> IF i <= Len(source) THEN source[i] ELSE target[i]]

\* arr.slice(0, end)
Slice(arr, end) == [i \in 1..Min2(end, Len(arr)) |-> arr[i]]

----------------------------------------------------------------------------
(* THREE.Color.setHSL(h, 1.0, 0.5) *)

\* hue2rgb(0, 1, t) for t = tN / tD, in units of 1/ColorScale
hue2rgb(tN0, tD) ==
  LET t1 == IF tN0 < 0 THEN tN0 + tD ELSE tN0
      tN == IF t1 > tD THEN t1 - tD ELSE t1
  IN  IF 6 * tN < tD THEN (6 * tN * ColorScale) \div tD
      ELSE IF 2 * tN < tD THEN ColorScale
      ELSE IF 3 * tN < 2 * tD THEN (6 * (2 * tD - 3 * tN) * ColorScale) \div (3 * tD)
      ELSE 0

\* tempColor.setHSL(0.6 - normalizedZ * 0.6, 1.0, 0.5) with
\* normalizedZ = (z - minZ) / zRange; the hue is hN / hD
HeightColor(z, minZ, zRange) ==
  LET hD == 15 * zRange
      hN == 9 * (zRange - (z - minZ))
  IN  <<hue2rgb(hN + 5 * zRange, hD), hue2rgb(hN, hD), hue2rgb(hN - 5 * zRange, hD)>>

\* maxZ - minZ || 1
ZRange(minZ, maxZ) == IF maxZ - minZ = 0 THEN Unit ELSE maxZ - minZ

\* the colouring loop shared by parseXYZFile (pass 2) and recalculateColorsFromZ
RECURSIVE ColorizeLoop(_, _, _, _, _, _)
ColorizeLoop(positions, colors, i, end, minZ, zRange) ==
  IF i >= end THEN colors
  ELSE LET c == HeightColor(ArrayGet(positions, i + 2), minZ, zRange)
           c1 == ArraySet(colors, i, c[1])
           c2 == ArraySet(c1, i + 1, c[2])
           c3 == ArraySet(c2, i + 2, c[3])
       IN  ColorizeLoop(positions, c3, i + 3, end, minZ, zRange)

----------------------------------------------------------------------------
(* parseXYZFile, src/src/parser.js *)

\* mutant of LowerBound: the minimum is the coordinate of the first point
LowerBound_first(min, v) == IF min = Infinity THEN v ELSE min

\* if (x < minX) minX = x
LowerBound(min, v) == IF v < min THEN v ELSE min

\* if (x > maxX) maxX = x
UpperBound(max, v) == IF v > max THEN v ELSE max

\* mutant of GrowLength: the buffers are enlarged by one element
GrowLength_byOne(pIndex, length) ==
  IF pIndex + 3 >= length THEN length + 1 ELSE length

\* mutant of GrowLength: the buffers are never enlarged
GrowLength_never(pIndex, length) == length

\* new length of the buffers when the next triple is about to be written
GrowLength(pIndex, length) ==
  IF pIndex + 3 >= length THEN length * 2 ELSE length

\* pass 1: the exec loop, entered with the result m of lineRegex.exec.  st
\* holds the locals of parseXYZFile; st.matches records, for each emitted
\* point, the span of the text it was read from and the length of the
\* buffers when it was written.
RECURSIVE ParseLoop(_, _, _)
ParseLoop(s, m, st) ==
      IF ~m.ok THEN st
      ELSE LET newLen == GrowLength(st.pIndex, Len(st.positions))
               pos0 == IF newLen # Len(st.positions)
                       THEN TypedArraySet(Float32Array(newLen), st.positions)
                       ELSE st.positions
               col0 == IF newLen # Len(st.positions)
                       THEN TypedArraySet(Float32Array(Len(st.colors) * 2), st.colors)
                       ELSE st.colors
               pos1 == ArraySet(pos0, st.pIndex, m.x)
               pos2 == ArraySet(pos1, st.pIndex + 1, m.y)
               pos3 == ArraySet(pos2, st.pIndex + 2, m.z)
           IN  ParseLoop(s, RegexExec(s, m.to),
                 [positions |-> pos3, colors |-> col0,
                  pIndex |-> st.pIndex + 3,
                  minX |-> LowerBound(st.minX, m.x), maxX |-> UpperBound(st.maxX, m.x),
                  minY |-> LowerBound(st.minY, m.y), maxY |-> UpperBound(st.maxY, m.y),
                  minZ |-> LowerBound(st.minZ, m.z), maxZ |-> UpperBound(st.maxZ, m.z),
                  matches |-> Append(st.matches,
                               [from |-> m.from, to |-> m.to, length |-> newLen])])

\* the rest of parseXYZFile after the exec loop has left the locals st:
\* count, the trimmed arrays, pass 2 and the returned object
ParseResult(st) ==
  LET count == st.pIndex \div 3
      positions == Slice(st.positions, st.pIndex)
      colors0 == Slice(st.colors, st.pIndex)
      zRange == ZRange(st.minZ, st.maxZ)
      colors == ColorizeLoop(positions, colors0, 0, st.pIndex, st.minZ, zRange)
  IN  [positions |-> positions, colors |-> colors, count |-> count,
       bounds |-> [minX |-> st.minX, maxX |-> st.maxX,
                   minY |-> st.minY, maxY |-> st.maxY,
                   minZ |-> st.minZ, maxZ |-> st.maxZ],
       matches |-> st.matches]

parseXYZFile(s) ==
  LET len == Len(s)
      estimatedPoints == (len + 19) \div 20
  IN  ParseResult(ParseLoop(s, RegexExec(s, 1),
              [positions |-> Float32Array(estimatedPoints * 3),
               colors |-> Float32Array(estimatedPoints * 3),
               pIndex |-> 0,
               minX |-> Infinity, maxX |-> -Infinity,
               minY |-> Infinity, maxY |-> -Infinity,
               minZ |-> Infinity, maxZ |-> -Infinity,
               matches |-> <<>>]))

\* mutant of centerPositions: the positions are shifted to the lower corner
\* of the bounds
centerPositions_toMin(positions, bounds) ==
  LET center == <<bounds.minX, bounds.minY, bounds.minZ>>
  IN  [centeredPositions |->
         [i \in 1..Len(positions) |-> positions[i] - center[((i - 1) % 3) + 1]],
       offset |-> [x |-> bounds.minX, y |-> bounds.minY, z |-> bounds.minZ]]

\* centerPositions, src/src/parser.js
centerPositions(positions, bounds) ==
  LET centerX == (bounds.minX + bounds.maxX) \div 2
      centerY == (bounds.minY + bounds.maxY) \div 2
      centerZ == (bounds.minZ + bounds.maxZ) \div 2
      center == <<centerX, centerY, centerZ>>
  IN  [centeredPositions |->
         [i \in 1..Len(positions) |-> positions[i] - center[((i - 1) % 3) + 1]],
       offset |-> [x |-> centerX, y |-> centerY, z |-> centerZ]]


----------------------------------------------------------------------------
(* THREE.Matrix4 / Vector3 / Quaternion as used by the selection box.       *)
(* A quaternion is kept as an integer vector <<x, y, z, w>> whose           *)
(* normalisation q / |q| is the unit quaternion of the box; an affine       *)
(* matrix is [m |-> the 3x3 rows, t |-> the translation column].            *)

QNorm(q) == q[1] * q[1] + q[2] * q[2] + q[3] * q[3] + q[4] * q[4]

\* Matrix4.compose(position, quaternion, new Vector3(1, 1, 1))
Compose(position, q) ==
  LET n == QNorm(q)
      x == q[1]  y == q[2]  z == q[3]  w == q[4]
  IN  [m |-> << <<(n - 2 * (y * y + z * z)) \div n, (2 * (x * y - w * z)) \div n,
                  (2 * (x * z + w * y)) \div n>>,
                <<(2 * (x * y + w * z)) \div n, (n - 2 * (x * x + z * z)) \div n,
                  (2 * (y * z - w * x)) \div n>>,
                <<(2 * (x * z - w * y)) \div n, (2 * (y * z + w * x)) \div n,
                  (n - 2 * (x * x + y * y)) \div n>> >>,
       t |-> position]

MatVec(m, v) ==
  <<m[1][1] * v[1] + m[1][2] * v[2] + m[1][3] * v[3],
    m[2][1] * v[1] + m[2][2] * v[2] + m[2][3] * v[3],
    m[3][1] * v[1] + m[3][2] * v[2] + m[3][3] * v[3]>>

Det3(m) ==
    m[1][1] * (m[2][2] * m[3][3] - m[2][3] * m[3][2])
  - m[1][2] * (m[2][1] * m[3][3] - m[2][3] * m[3][1])
  + m[1][3] * (m[2][1] * m[3][2] - m[2][2] * m[3][1])

\* Matrix4.invert() of an affine matrix: cofactors over the determinant,
\* the zero matrix when the determinant is 0
Invert(M) ==
  LET m == M.m
      det == Det3(m)
      adj == << <<m[2][2] * m[3][3] - m[2][3] * m[3][2],
                  m[1][3] * m[3][2] - m[1][2] * m[3][3],
                  m[1][2] * m[2][3] - m[1][3] * m[2][2]>>,
                <<m[2][3] * m[3][1] - m[2][1] * m[3][3],
                  m[1][1] * m[3][3] - m[1][3] * m[3][1],
                  m[1][3] * m[2][1] - m[1][1] * m[2][3]>>,
                <<m[2][1] * m[3][2] - m[2][2] * m[3][1],
                  m[1][2] * m[3][1] - m[1][1] * m[3][2],
                  m[1][1] * m[2][2] - m[1][2] * m[2][1]>> >>
  IN  IF det = 0
      THEN [m |-> << <<0, 0, 0>>, <<0, 0, 0>>, <<0, 0, 0>> >>, t |-> <<0, 0, 0>>]
      ELSE LET inv == [r \in 1..3 |-> [c \in 1..3 |-> adj[r][c] \div det]]
               it == MatVec(inv, M.t)
           IN  [m |-> inv, t |-> <<-it[1], -it[2], -it[3]>>]

\* Vector3.applyMatrix4 for an affine matrix
ApplyMatrix4(v, M) ==
  LET r == MatVec(M.m, v) IN <<r[1] + M.t[1], r[2] + M.t[2], r[3] + M.t[3]>>

\* mutant of AbsQuotientLeHalf: the division rewritten as 2 |p| <= |s|
AbsQuotientLeHalf_product(p, s) == 2 * Abs(p) <= Abs(s)

\* Math.abs(p / s) <= 0.5 in JavaScript numbers: p / 0 is +-Infinity or NaN,
\* and neither compares <= 0.5
AbsQuotientLeHalf(p, s) ==
  IF s = 0 THEN FALSE ELSE 2 * Abs(p) <= Abs(s)

\* boxMatrix.compose(position, quaternion, (1, 1, 1)) and its inverse
InverseBoxMatrix(box) == Invert(Compose(box.position, box.quaternion))

\* mutant of IsInside: the boundary of the box is left out
IsInside_strict(point, inverseMatrix, scale) ==
  LET pointVector == ApplyMatrix4(point, inverseMatrix)
  IN  \A a \in 1..3 : scale[a] # 0 /\ 2 * Abs(pointVector[a]) < Abs(scale[a])

\* the containment test of selectPointsInBox and saveSelectedPoints for the
\* point <<x, y, z>>: into the local frame of the box, then divide by scale
IsInside(point, inverseMatrix, scale) ==
  LET pointVector == ApplyMatrix4(point, inverseMatrix)
  IN  /\ AbsQuotientLeHalf(pointVector[1], scale[1])
      /\ AbsQuotientLeHalf(pointVector[2], scale[2])
      /\ AbsQuotientLeHalf(pointVector[3], scale[3])

PointAt(positions, i) ==
  <<ArrayGet(positions, i), ArrayGet(positions, i + 1), ArrayGet(positions, i + 2)>>

----------------------------------------------------------------------------
(* selection.js *)

FadedColor == (9 * ColorScale) \div 10

\* mutant of PointColors: the colour of an inside point is left as it is
PointColors_keepInside(colors, snapshot, i, inside, hideOutside) ==
  IF inside THEN colors
  ELSE IF ~hideOutside
  THEN ArraySet(ArraySet(ArraySet(colors, i, ArrayGet(snapshot, i)),
                         i + 1, ArrayGet(snapshot, i + 1)),
                i + 2, ArrayGet(snapshot, i + 2))
  ELSE ArraySet(ArraySet(ArraySet(colors, i, FadedColor), i + 1, FadedColor),
                i + 2, FadedColor)

\* colors[colorIndex .. colorIndex + 2] of one point after selectPointsInBox
PointColors(colors, snapshot, i, inside, hideOutside) ==
  IF inside \/ ~hideOutside
  THEN ArraySet(ArraySet(ArraySet(colors, i, ArrayGet(snapshot, i)),
                         i + 1, ArrayGet(snapshot, i + 1)),
                i + 2, ArrayGet(snapshot, i + 2))
  ELSE ArraySet(ArraySet(ArraySet(colors, i, FadedColor), i + 1, FadedColor),
                i + 2, FadedColor)

\* the loop of selectPointsInBox over the position array
RECURSIVE SelectLoop(_, _, _, _, _, _, _)
SelectLoop(positions, snapshot, inverseMatrix, scale, hideOutside, i, acc) ==
  IF i >= Len(positions) THEN acc
  ELSE LET isInside == IsInside(PointAt(positions, i), inverseMatrix, scale)
       IN  SelectLoop(positions, snapshot, inverseMatrix, scale, hideOutside, i + 3,
             [acc EXCEPT
                !.colors = PointColors(@, snapshot, i, isInside, hideOutside),
                !.selectedCount = @ + (IF isInside THEN 1 ELSE 0),
                !.inside = Append(@, isInside)])

\* mutant of Snapshot: the snapshot is taken anew on every call
Snapshot_everyCall(colors, snapshot) == colors

\* the snapshot selectPointsInBox works with: captured on the first call
Snapshot(colors, snapshot) == IF IsNull(snapshot) THEN colors ELSE Val(snapshot)

\* selectPointsInBox(pointCloud, boxSettings): the new colour array, the new
\* value of originalColors, the return value and which points were inside
selectPointsInBox(cloud, snapshot, box, hideOutside) ==
  LET snap == Snapshot(cloud.colors, snapshot)
  IN  SelectLoop(cloud.positions, snap, InverseBoxMatrix(box), box.scale,
                 hideOutside, 0,
                 [colors |-> cloud.colors, originalColors |-> Some(snap),
                  selectedCount |-> 0, inside |-> <<>>])

\* restoreOriginalColors: the colour array afterwards
restoreOriginalColors(colors, snapshot) ==
  IF IsNull(snapshot) THEN colors ELSE TypedArraySet(colors, Val(snapshot))

\* Number.prototype.toFixed(2) of a fixed-point value, as the number of
\* hundredths the printed text denotes
toFixed2(v) == (v * 100) \div Unit

\* the loop of saveSelectedPoints: the lines pushed to selectedPoints
RECURSIVE SaveLoop(_, _, _, _, _, _)
SaveLoop(positions, inverseMatrix, scale, offset, i, selectedPoints) ==
  IF i >= Len(positions) THEN selectedPoints
  ELSE LET p == PointAt(positions, i)
       IN  SaveLoop(positions, inverseMatrix, scale, offset, i + 3,
             IF IsInside(p, inverseMatrix, scale)
             THEN Append(selectedPoints,
                         <<toFixed2(p[1] + offset.x), toFixed2(p[2] + offset.y),
                           toFixed2(p[3] + offset.z)>>)
             ELSE selectedPoints)

saveSelectedPoints(cloud, box, offset) ==
  SaveLoop(cloud.positions, InverseBoxMatrix(box), box.scale, offset, 0, <<>>)


----------------------------------------------------------------------------
(* PointCloudViewer, src/src/ui.js *)

\* minimum / maximum of one coordinate (axis 0, 1, 2) over the position array
RECURSIVE AxisMin(_, _, _, _)
AxisMin(positions, axis, i, acc) ==
  IF i >= Len(positions) THEN acc
  ELSE AxisMin(positions, axis, i + 3, Min2(acc, ArrayGet(positions, i + axis)))

RECURSIVE AxisMax(_, _, _, _)
AxisMax(positions, axis, i, acc) ==
  IF i >= Len(positions) THEN acc
  ELSE AxisMax(positions, axis, i + 3, Max2(acc, ArrayGet(positions, i + axis)))

\* geometry.computeBoundingBox() followed by getCenter / getSize
BoundingBox(positions) ==
  LET mn == [a \in 1..3 |-> AxisMin(positions, a - 1, 0, Infinity)]
      mx == [a \in 1..3 |-> AxisMax(positions, a - 1, 0, -Infinity)]
  IN  [min |-> mn, max |-> mx,
       center |-> [a \in 1..3 |-> (mn[a] + mx[a]) \div 2],
       size |-> [a \in 1..3 |-> mx[a] - mn[a]]]

\* PointCloudViewer.recalculateColorsFromZ: the colour array afterwards
recalculateColorsFromZ(positions, colors) ==
  LET minZ == AxisMin(positions, 2, 0, Infinity)
      maxZ == AxisMax(positions, 2, 0, -Infinity)
  IN  ColorizeLoop(positions, colors, 0, Len(positions), minZ, ZRange(minZ, maxZ))

\* mutant of invertZAxis: the Z offset is not negated
invertZAxis_keepOffset(cloud, offset) ==
  LET positions == [i \in 1..Len(cloud.positions) |->
                      IF i % 3 = 0 THEN -cloud.positions[i] ELSE cloud.positions[i]]
  IN  [cloud |-> [positions |-> positions,
                  colors |-> recalculateColorsFromZ(positions, cloud.colors)],
       offset |-> offset]

\* PointCloudViewer.invertZAxis: the point cloud and the viewer's offset afterwards
invertZAxis(cloud, offset) ==
  LET positions == [i \in 1..Len(cloud.positions) |->
                      IF i % 3 = 0 THEN -cloud.positions[i] ELSE cloud.positions[i]]
  IN  [cloud |-> [positions |-> positions,
                  colors |-> recalculateColorsFromZ(positions, cloud.colors)],
       offset |-> [offset EXCEPT !.z = -offset.z]]

\* positionSelectionBox(center, size, boxSettings): position and scale are
\* set, the orientation is kept
positionSelectionBox(box, center, size) ==
  [box EXCEPT !.position = center, !.scale = size]


----------------------------------------------------------------------------
(* Profile slice extractor (profile tool code, src/DEPLOYMENT_FIX_SUMMARY.md) *)

\* Math.sqrt for the perfect squares the model's lines produce
ISqrt(n) == CHOOSE k \in 0..n : k * k <= n /\ (k + 1) * (k + 1) > n

IsSquare(n) == ISqrt(n) * ISqrt(n) = n

\* Vector3.normalize(): divideScalar(this.length() || 1); the result is the
\* vector v.num / v.den
Normalize(v) ==
  LET length == ISqrt(v[1] * v[1] + v[2] * v[2] + v[3] * v[3])
  IN  [num |-> v, den |-> IF length = 0 THEN 1 ELSE length]

Sub(a, b) == <<a[1] - b[1], a[2] - b[2], a[3] - b[3]>>
Dot(a, b) == a[1] * b[1] + a[2] * b[2] + a[3] * b[3]

\* mutant of distanceToVerticalPlane: Math.abs left out
distanceToVerticalPlane_signed(point, lineStart, lineEnd) ==
  LET d == Sub(lineEnd, lineStart)
      lineDir == Normalize(<<d[1], d[2], 0>>)
      normal == <<-lineDir.num[2], lineDir.num[1], 0>>
      toPoint == Sub(point, lineStart)
  IN  [num |-> Dot(toPoint, normal), den |-> lineDir.den]

\* distanceToVerticalPlane: the distance is result.num / result.den
distanceToVerticalPlane(point, lineStart, lineEnd) ==
  LET d == Sub(lineEnd, lineStart)
      lineDir == Normalize(<<d[1], d[2], 0>>)
      normal == <<-lineDir.num[2], lineDir.num[1], 0>>
      toPoint == Sub(point, lineStart)
  IN  [num |-> Abs(Dot(toPoint, normal)), den |-> lineDir.den]

\* distanceAlongLine: the distance is result.num / result.den
distanceAlongLine(point, lineStart, lineEnd) ==
  LET lineDir == Normalize(Sub(lineEnd, lineStart))
      toPoint == Sub(point, lineStart)
  IN  [num |-> Dot(toPoint, lineDir.num), den |-> lineDir.den]

\* mutant of WithinHalfThickness: the boundary of the slice is left out
WithinHalfThickness_strict(distToPlane, thickness) ==
  2 * distToPlane.num < thickness * distToPlane.den

\* distToPlane <= halfThickness with halfThickness = thickness / 2
WithinHalfThickness(distToPlane, thickness) ==
  2 * distToPlane.num <= thickness * distToPlane.den

RECURSIVE ProfileLoop(_, _, _, _, _, _, _)
ProfileLoop(positions, colors, lineStart, lineEnd, thickness, i, points) ==
  IF i >= Len(positions) THEN points
  ELSE LET point == PointAt(positions, i)
           distToPlane == distanceToVerticalPlane(point, lineStart, lineEnd)
       IN  ProfileLoop(positions, colors, lineStart, lineEnd, thickness, i + 3,
             IF WithinHalfThickness(distToPlane, thickness)
             THEN Append(points,
                    [distance |-> distanceAlongLine(point, lineStart, lineEnd),
                     z |-> point[3],
                     color |-> PointAt(colors, i),
                     distToPlane |-> distToPlane,
                     index |-> i \div 3])
             ELSE points)

\* getProfilePoints(lineStart, lineEnd, thickness, pointCloud); index is the
\* position of the point in the cloud
getProfilePoints(lineStart, lineEnd, thickness, cloud) ==
  IF IsNull(cloud) THEN <<>>
  ELSE ProfileLoop(Val(cloud).positions, Val(cloud).colors,
                   lineStart, lineEnd, thickness, 0, <<>>)

----------------------------------------------------------------------------
(* Inputs *)

\* lines.join("\n")
RECURSIVE Join(_)
Join(lines) ==
  IF Len(lines) = 0 THEN <<>>
  ELSE IF Len(lines) = 1 THEN lines[1]
  ELSE lines[1] \o <<"\n">> \o Join(Tail(lines))

LineZero == <<"0", " ", "0", " ", "0">>                        \* 0 0 0
LineSigned == <<"2", " ", "1", " ", "-", "3">>                 \* 2 1 -3
LineCommentNumbers == <<"#", " ", "1", " ", "2", " ", "3">>    \* # 1 2 3
LineComment == <<"#", "c">>                                    \* #c
LineBlank == <<>>
LineTwo == <<"1", " ", "2">>                                   \* 1 2
LineOne == <<"3">>                                             \* 3
LineFour == <<"4", " ", "4", " ", "4", " ", "4">>              \* 4 4 4 4
LineWide == <<"1", "2", "\t", "3", " ", " ", "5">>             \* 12<tab>3  5

LineSet == {LineZero, LineSigned, LineCommentNumbers, LineComment, LineBlank,
            LineTwo, LineOne, LineFour, LineWide}

\* the texts handed to the parser: up to MaxLines lines
Texts == UNION {{Join(ls) : ls \in [1..n -> LineSet]} : n \in 1..MaxLines}

\* the files a user loads
FileTwoPoints == Join(<<LineZero, LineSigned>>)
FileOnePoint == Join(<<LineTwo, LineOne>>)
FileThreePoints == Join(<<LineZero, LineFour, LineWide>>)
FileNoPoints == Join(<<LineComment, LineBlank>>)
Files == {FileTwoPoints, FileOnePoint, FileThreePoints, FileNoPoints}

\* what dragging the transform gizmo can set
BoxPositions == {<<0, 0, 0>>, <<2, -1, 1>>}
BoxQuaternions == {<<0, 0, 0, 1>>, <<0, 0, 1, 1>>, <<1, 1, 1, 1>>}
BoxScales == {<<4, 4, 8>>, <<2, 8, 0>>, <<-8, 4, 8>>}

----------------------------------------------------------------------------
(* The application: state after construction and the event handlers *)

ZeroOffset == [x |-> 0, y |-> 0, z |-> 0]

\* lastCall: the operation, the value selectPointsInBox returned and which
\* points it found inside, the lines saveSelectedPoints wrote, how many colour
\* components restoreOriginalColors changed, the points getProfilePoints
\* returned and the points its call before returned, and the point a click
\* on the canvas hit (or null)
NoCall == [op |-> "none", selectedCount |-> 0, inside |-> <<>>, lines |-> <<>>,
           changed |-> 0, points |-> <<>>, previous |-> <<>>, click |-> Null]

\* history of the dataset on display: the positions and count as parsed, whether Z is
\* inverted, whether selectPointsInBox has run on it and the colours it had
\* before that first run, whether the snapshot was taken from this dataset,
\* whether loading it discarded a snapshot, and the colours the load or the
\* last Z inversion gave it
NoHistory == [raw |-> <<>>, count |-> 0, inverted |-> FALSE, selected |-> FALSE,
              baseline |-> <<>>, snapshotCurrent |-> FALSE, dropped |-> FALSE,
              plain |-> <<>>]

\* new MeasurementTool(scene, camera, rendererElement, {x: 0, y: 0, z: 0})
NewMeasurementTool ==
  [coordinateOffset |-> ZeroOffset, isActive |-> FALSE, isFirstPoint |-> TRUE,
   startPoint |-> Null, startMarker |-> Null, measurements |-> <<>>]

\* new ProfileTool({x: 0, y: 0, z: 0})
NewProfileTool ==
  [coordinateOffset |-> ZeroOffset, profileLine |-> Null,
   profileStartPoint |-> Null, profileEndPoint |-> Null, isDrawingMode |-> FALSE,
   profilePoints |-> Null, clickHandler |-> Null, startMarkers |-> 0]

\* measurementSettings and profileSettings of ui.js as declared
NewToolSettings == [measurement |-> FALSE, profile |-> FALSE]

\* no file load in progress: the spinner is hidden, no explosion animation
\* runs and no setTimeout of processNewFile is pending; reads is the text of
\* every read that completed and processed the reads whose processNewFile
\* body has run
IdleLoader == [spinner |-> FALSE, reads |-> <<>>, explosions |-> <<>>,
               timers |-> <<>>, processed |-> <<>>]

\* generateDefaultCloud, src/src/parser.js: the terrain, of which the model
\* keeps the two opposite corners of the grid; heights is what the random
\* waves give the two corners (clamped to baseZ .. baseZ + 10)
DefaultBaseX == 2 * Unit
DefaultBaseY == 4 * Unit
DefaultSize == 2 * Unit
DefaultHeights == {<<-2 * Unit, 0>>, <<-Unit, -Unit>>}

generateDefaultCloud(heights) ==
  [positions |-> <<DefaultBaseX, DefaultBaseY, heights[1],
                   DefaultBaseX + DefaultSize, DefaultBaseY + DefaultSize, heights[2]>>,
   colors |-> HeightColor(heights[1], Min2(heights[1], heights[2]),
                          ZRange(Min2(heights[1], heights[2]), Max2(heights[1], heights[2])))
              \o HeightColor(heights[2], Min2(heights[1], heights[2]),
                          ZRange(Min2(heights[1], heights[2]), Max2(heights[1], heights[2]))),
   count |-> 2,
   bounds |-> [minX |-> DefaultBaseX, maxX |-> DefaultBaseX + DefaultSize,
               minY |-> DefaultBaseY, maxY |-> DefaultBaseY + DefaultSize,
               minZ |-> Min2(heights[1], heights[2]),
               maxZ |-> Max2(heights[1], heights[2])]]

\* generateLogoCloud, src/src/parser.js: one pixel of the logo, in its own
\* colour, floating above the terrain, with the velocity of the explosion
generateLogoCloud ==
  [positions |-> <<3 * Unit, 5 * Unit, 2 * Unit>>,
   colors |-> <<ColorScale, ColorScale \div 2, 0>>,
   velocities |-> <<Unit, 0, Unit>>,
   count |-> 1,
   bounds |-> [minX |-> 3 * Unit, maxX |-> 3 * Unit,
               minY |-> 5 * Unit, maxY |-> 5 * Unit,
               minZ |-> 2 * Unit, maxZ |-> 2 * Unit]]

\* loadDefaultCloud: the terrain and the logo combined into one dataset
CombinedCloud(terrainData, logoData) ==
  [positions |-> terrainData.positions \o logoData.positions,
   colors |-> terrainData.colors \o logoData.colors,
   count |-> terrainData.count + logoData.count,
   bounds |-> [minX |-> Min2(terrainData.bounds.minX, logoData.bounds.minX),
               maxX |-> Max2(terrainData.bounds.maxX, logoData.bounds.maxX),
               minY |-> Min2(terrainData.bounds.minY, logoData.bounds.minY),
               maxY |-> Max2(terrainData.bounds.maxY, logoData.bounds.maxY),
               minZ |-> Min2(terrainData.bounds.minZ, logoData.bounds.minZ),
               maxZ |-> Max2(terrainData.bounds.maxZ, logoData.bounds.maxZ)]]

\* the state loadDefaultCloud leaves: r is the combined dataset, c what
\* centerPositions returned for it, bb the bounding box of the point cloud
DefaultLoaded(r, c, bb) ==
  /\ coordinateOffset = c.offset
  /\ viewerOffset = c.offset
  /\ pointCloud = Some([positions |-> c.centeredPositions, colors |-> r.colors])
  /\ boxSettings = [hideOutside |-> TRUE, visible |-> FALSE]
  /\ selectionBox = positionSelectionBox(
         [position |-> <<0, 0, 0>>, quaternion |-> <<0, 0, 0, 1>>,
          scale |-> <<Unit, Unit, Unit>>], bb.center, bb.size)
  /\ originalColors = Null
  /\ isDefaultCloud = TRUE
  /\ measurementTool = [NewMeasurementTool EXCEPT !.coordinateOffset = c.offset]
  /\ profileTool = [NewProfileTool EXCEPT !.coordinateOffset = c.offset]
  /\ hist = [NoHistory EXCEPT !.raw = r.positions, !.count = r.count,
                               !.plain = r.colors]

\* the default clouds loadDefaultCloud can build
DefaultClouds ==
  {CombinedCloud(generateDefaultCloud(heights), generateLogoCloud) :
     heights \in DefaultHeights}

\* the application once its start-up code has run: the modules are
\* constructed and loadDefaultCloud has put the default cloud on display
Init ==
  /\ content = <<>>
  /\ parsed = Null
  /\ lastCall = NoCall
  /\ probe = Null
  /\ toolSettings = NewToolSettings
  /\ loader = IdleLoader
  /\ clickListeners = <<>>
  /\ \E r \in DefaultClouds :
       DefaultLoaded(r, centerPositions(r.positions, r.bounds),
         BoundingBox(centerPositions(r.positions, r.bounds).centeredPositions))

\* parseXYZFile on the files of the model, evaluated once
ParsedFiles == [text \in Files |-> parseXYZFile(text)]

\* mutant of LoadedSnapshot: the load keeps the snapshot
LoadedSnapshot_kept(snapshot) == snapshot

\* originalColors after a load: selection.resetOriginalColors() drops it
LoadedSnapshot(snapshot) == Null

\* the state a call of selectPointsInBox with result r leaves, made on the
\* point cloud `cloud` by a handler that leaves the history h
Selected(cloud, h, r) ==
  /\ pointCloud' = Some([Val(cloud) EXCEPT !.colors = r.colors])
  /\ originalColors' = r.originalColors
  /\ lastCall' = [NoCall EXCEPT !.op = "select",
                                !.selectedCount = r.selectedCount,
                                !.inside = r.inside]
  /\ hist' = [h EXCEPT
        !.selected = TRUE,
        !.baseline = IF h.selected THEN @ ELSE Val(cloud).colors,
        !.snapshotCurrent = IF IsNull(originalColors) THEN TRUE ELSE @]

\* a call selectPointsInBox(cloud, boxSettings) made by a handler that leaves
\* the point cloud `cloud`, the box `box`, the flag `hideOutside` and the
\* history h behind
CallSelect(cloud, box, hideOutside, h) ==
  IF IsNull(cloud)
  THEN /\ pointCloud' = cloud
       /\ hist' = h
       /\ lastCall' = [NoCall EXCEPT !.op = "select"]
       /\ UNCHANGED originalColors
  ELSE Selected(cloud, h,
                selectPointsInBox(Val(cloud), originalColors, box, hideOutside))

\* processNewFile from the centring on: r is what parseXYZFile returned
\* (count > 0), c what centerPositions returned, bb the bounding box of the
\* new point cloud
DisplayCloud(r, c, bb) ==
  /\ coordinateOffset' = c.offset
  /\ viewerOffset' = c.offset
  /\ measurementTool' = [measurementTool EXCEPT !.coordinateOffset = c.offset]
  /\ profileTool' = [profileTool EXCEPT !.coordinateOffset = c.offset]
  /\ pointCloud' = Some([positions |-> c.centeredPositions, colors |-> r.colors])
  /\ boxSettings' = [boxSettings EXCEPT !.visible = FALSE]
  /\ selectionBox' = positionSelectionBox(selectionBox, bb.center, bb.size)
  /\ originalColors' = LoadedSnapshot(originalColors)
  /\ isDefaultCloud' = FALSE
  /\ lastCall' = [NoCall EXCEPT !.op = "load"]
  /\ hist' = [NoHistory EXCEPT
        !.raw = r.positions,
        !.count = r.count,
        !.dropped = ~IsNull(originalColors),
        !.plain = r.colors]

\* the body processNewFile runs by setTimeout, r being what parseXYZFile
\* returned, v the point cloud and the flag the viewer holds by then and l
\* the loads in progress; the spinner is showing, and it is hidden at the end
\* of a successful load only
Parsed(r, v, l) ==
  /\ parsed' = Some(r)
  /\ loader' = [l EXCEPT !.spinner = (r.count = 0)]
  /\ IF r.count = 0
     THEN /\ lastCall' = [NoCall EXCEPT !.op = "loadFailed"]
          /\ pointCloud' = v.pointCloud
          /\ isDefaultCloud' = v.isDefaultCloud
          /\ UNCHANGED <<originalColors, coordinateOffset, viewerOffset,
                         selectionBox, boxSettings, hist, measurementTool,
                         profileTool>>
     ELSE DisplayCloud(r, centerPositions(r.positions, r.bounds),
            BoundingBox(centerPositions(r.positions, r.bounds).centeredPositions))

\* PointCloudViewer.animateExplosion run to its last frame: what the viewer
\* holds when the callback is called (explosionVelocities is set exactly
\* when isDefault is)
animateExplosion(cloud, isDefault) ==
  IF IsNull(cloud) \/ ~isDefault
  THEN [pointCloud |-> cloud, isDefaultCloud |-> isDefault]
  ELSE [pointCloud |-> Null, isDefaultCloud |-> FALSE]

\* reader.onload and all it sets off, run without another event in between:
\* the default cloud is exploded first, then processNewFile shows the
\* spinner and its body parses the file (the history of reads is kept by the
\* stepwise actions of SpecLoad only)
ProcessNewFile(text) ==
  /\ content' = text
  /\ Parsed(ParsedFiles[text],
            IF isDefaultCloud
            THEN animateExplosion(pointCloud, isDefaultCloud)
            ELSE [pointCloud |-> pointCloud, isDefaultCloud |-> isDefaultCloud],
            loader)
  /\ UNCHANGED <<probe, toolSettings, clickListeners>>

\* 'Show Box' checkbox switched on
ShowBox ==
  /\ ~boxSettings.visible
  /\ boxSettings' = [boxSettings EXCEPT !.visible = TRUE]
  /\ IF IsNull(pointCloud)
     THEN /\ lastCall' = NoCall
          /\ UNCHANGED <<pointCloud, originalColors, hist>>
     ELSE CallSelect(pointCloud, selectionBox, boxSettings.hideOutside, hist)
  /\ UNCHANGED <<content, parsed, coordinateOffset, viewerOffset, selectionBox, probe,
                 isDefaultCloud,
                 measurementTool, profileTool, toolSettings, loader,
                 clickListeners>>

\* 'Show Box' checkbox switched off
HideBox ==
  /\ boxSettings.visible
  /\ boxSettings' = [boxSettings EXCEPT !.visible = FALSE]
  /\ IF IsNull(pointCloud)
     THEN /\ lastCall' = NoCall
          /\ UNCHANGED pointCloud
     ELSE /\ pointCloud' = Some([Val(pointCloud) EXCEPT
               !.colors = restoreOriginalColors(@, originalColors)])
          /\ lastCall' = [NoCall EXCEPT
                !.op = "restore",
                !.changed = Cardinality({i \in 1..Len(Val(pointCloud).colors) :
                   Val(pointCloud).colors[i] #
                   restoreOriginalColors(Val(pointCloud).colors, originalColors)[i]})]
  /\ UNCHANGED <<content, parsed, originalColors, coordinateOffset, viewerOffset,
                 selectionBox, hist, probe,
                 isDefaultCloud,
                 measurementTool, profileTool, toolSettings, loader,
                 clickListeners>>

\* 'Fade Outside' checkbox
SetHideOutside ==
  /\ boxSettings' = [boxSettings EXCEPT !.hideOutside = ~@]
  /\ IF boxSettings.visible
     THEN CallSelect(pointCloud, selectionBox, ~boxSettings.hideOutside, hist)
     ELSE /\ lastCall' = NoCall
          /\ UNCHANGED <<pointCloud, originalColors, hist>>
  /\ UNCHANGED <<content, parsed, coordinateOffset, viewerOffset, selectionBox, probe,
                 isDefaultCloud,
                 measurementTool, profileTool, toolSettings, loader,
                 clickListeners>>

\* transformControls 'change': the gizmo moved, turned or resized the box
TransformChange(box) ==
  /\ box # selectionBox
  /\ selectionBox' = box
  /\ IF boxSettings.visible /\ ~IsNull(pointCloud)
     THEN CallSelect(pointCloud, box, boxSettings.hideOutside, hist)
     ELSE /\ lastCall' = NoCall
          /\ UNCHANGED <<pointCloud, originalColors, hist>>
  /\ UNCHANGED <<content, parsed, coordinateOffset, viewerOffset, boxSettings, probe,
                 isDefaultCloud,
                 measurementTool, profileTool, toolSettings, loader,
                 clickListeners>>

Translate == \E p \in BoxPositions :
  TransformChange([selectionBox EXCEPT !.position = p])
Rotate == \E q \in BoxQuaternions :
  TransformChange([selectionBox EXCEPT !.quaternion = q])
Scale == \E sc \in BoxScales :
  TransformChange([selectionBox EXCEPT !.scale = sc])

\* 'Select Points' button
SelectPointsButton ==
  /\ CallSelect(pointCloud, selectionBox, boxSettings.hideOutside, hist)
  /\ UNCHANGED <<content, parsed, coordinateOffset, viewerOffset, selectionBox,
                 boxSettings, probe,
                 isDefaultCloud,
                 measurementTool, profileTool, toolSettings, loader,
                 clickListeners>>

\* 'Save Selected' button
SaveSelectedButton ==
  /\ lastCall' = [NoCall EXCEPT
       !.op = "save",
       !.lines = IF IsNull(pointCloud) THEN <<>>
                 ELSE saveSelectedPoints(Val(pointCloud), selectionBox, coordinateOffset)]
  /\ UNCHANGED <<content, parsed, pointCloud, originalColors, coordinateOffset,
                 viewerOffset, selectionBox, boxSettings, hist, probe,
                 isDefaultCloud,
                 measurementTool, profileTool, toolSettings, loader,
                 clickListeners>>

\* handleInvertZ after viewer.invertZAxis() returned r, bb being the bounding
\* box of the inverted cloud and h the history of the inverted dataset
Inverted(r, bb, h) ==
  /\ viewerOffset' = r.offset
  /\ IF boxSettings.visible
     THEN /\ selectionBox' = [selectionBox EXCEPT !.position[3] = -@]
          /\ CallSelect(Some(r.cloud), [selectionBox EXCEPT !.position[3] = -@],
                        boxSettings.hideOutside, h)
     ELSE /\ selectionBox' = positionSelectionBox(selectionBox, bb.center, bb.size)
          /\ pointCloud' = Some(r.cloud)
          /\ lastCall' = [NoCall EXCEPT !.op = "invert"]
          /\ hist' = h
          /\ UNCHANGED originalColors

\* 'Invert Z-axis' button: handleInvertZ
InvertZ ==
  /\ ~IsNull(pointCloud)
  /\ Inverted(invertZAxis(Val(pointCloud), viewerOffset),
              BoundingBox(invertZAxis(Val(pointCloud), viewerOffset).cloud.positions),
              [hist EXCEPT
                 !.inverted = ~@,
                 !.plain = invertZAxis(Val(pointCloud), viewerOffset).cloud.colors])
  /\ UNCHANGED <<content, parsed, coordinateOffset, boxSettings, probe,
                 isDefaultCloud,
                 measurementTool, profileTool, toolSettings, loader,
                 clickListeners>>

Next ==
  \/ \E text \in Files : ProcessNewFile(text)
  \/ ShowBox
  \/ HideBox
  \/ SetHideOutside
  \/ Translate
  \/ Rotate
  \/ Scale
  \/ SelectPointsButton
  \/ SaveSelectedButton
  \/ InvertZ

Spec == Init /\ [][Next]_vars


----------------------------------------------------------------------------
(* parseXYZFile applied to every text of Texts *)

InitParse ==
  /\ isDefaultCloud = FALSE
  /\ measurementTool = NewMeasurementTool
  /\ profileTool = NewProfileTool
  /\ toolSettings = NewToolSettings
  /\ loader = IdleLoader
  /\ clickListeners = <<>>
  /\ content \in Texts
  /\ parsed = Null
  /\ pointCloud = Null
  /\ originalColors = Null
  /\ coordinateOffset = ZeroOffset
  /\ viewerOffset = ZeroOffset
  /\ selectionBox = [position |-> <<0, 0, 0>>, quaternion |-> <<0, 0, 0, 1>>,
                     scale |-> <<Unit, Unit, Unit>>]
  /\ boxSettings = [hideOutside |-> TRUE, visible |-> FALSE]
  /\ lastCall = NoCall
  /\ hist = NoHistory
  /\ probe = Null

ParseText ==
  /\ IsNull(parsed)
  /\ parsed' = Some(parseXYZFile(content))
  /\ lastCall' = [NoCall EXCEPT !.op = "parse"]
  /\ UNCHANGED <<content, pointCloud, originalColors, coordinateOffset,
                 viewerOffset, selectionBox, boxSettings, hist, probe,
                 isDefaultCloud,
                 measurementTool, profileTool, toolSettings, loader,
                 clickListeners>>

\* processNewFile centres what the parser returned (count > 0)
CenterParsed ==
  /\ lastCall.op = "parse"
  /\ Val(parsed).count > 0
  /\ probe' = Some(centerPositions(Val(parsed).positions, Val(parsed).bounds))
  /\ lastCall' = [NoCall EXCEPT !.op = "center"]
  /\ UNCHANGED <<content, parsed, pointCloud, originalColors, coordinateOffset,
                 viewerOffset, selectionBox, boxSettings, hist, isDefaultCloud,
                 measurementTool, profileTool, toolSettings, loader,
                 clickListeners>>

NextParse == ParseText \/ CenterParsed

SpecParse == InitParse /\ [][NextParse]_vars

----------------------------------------------------------------------------
(* selectPointsInBox applied to one point and every box of a bounded family *)

MaxCoord == 2

ProbeCoords == (-MaxCoord)..MaxCoord
ProbePoints == {<<x, y, z>> : x \in ProbeCoords, y \in ProbeCoords, z \in ProbeCoords}
ProbePositions == {<<0, 0, 0>>, <<1, -2, 0>>}
ProbeScales == {<<2, 4, 6>>, <<4, 4, 0>>, <<-2, 6, 4>>, <<0, 0, 0>>, <<6, 2, 2>>}

\* the 48 integer quaternions of the 24 rotations that map the axes to axes
AxisQuaternions ==
  {q \in [1..4 -> {-1, 0, 1}] : QNorm(q) \in {1, 2, 4}}

InitContain ==
  /\ isDefaultCloud = FALSE
  /\ measurementTool = NewMeasurementTool
  /\ profileTool = NewProfileTool
  /\ toolSettings = NewToolSettings
  /\ loader = IdleLoader
  /\ clickListeners = <<>>
  /\ content = <<>>
  /\ parsed = Null
  /\ \E point \in ProbePoints :
       pointCloud = Some([positions |-> point, colors |-> <<0, 0, ColorScale>>])
  /\ originalColors = Null
  /\ coordinateOffset = ZeroOffset
  /\ viewerOffset = ZeroOffset
  /\ selectionBox \in [position : ProbePositions, quaternion : AxisQuaternions,
                       scale : ProbeScales]
  /\ boxSettings = [hideOutside |-> TRUE, visible |-> TRUE]
  /\ lastCall = NoCall
  /\ hist = NoHistory
  /\ probe = Null

ProbeSelect ==
  /\ lastCall.op = "none"
  /\ CallSelect(pointCloud, selectionBox, boxSettings.hideOutside, hist)
  /\ UNCHANGED <<content, parsed, coordinateOffset, viewerOffset, selectionBox,
                 boxSettings, probe,
                 isDefaultCloud,
                 measurementTool, profileTool, toolSettings, loader,
                 clickListeners>>

NextContain == ProbeSelect

SpecContain == InitContain /\ [][NextContain]_vars

----------------------------------------------------------------------------
(* getProfilePoints applied to a bounded family of lines *)

ProfileEnds == {<<x, y, z>> : x \in {0, 4}, y \in {0, 3}, z \in {0, 3}}
ProfileThicknesses == {0, 2, 4, 5}

\* the point cloud a load of `text` displays
CloudOf(text) ==
  [positions |-> centerPositions(ParsedFiles[text].positions,
                                 ParsedFiles[text].bounds).centeredPositions,
   colors |-> ParsedFiles[text].colors]

ProfileClouds == {CloudOf(FileTwoPoints), CloudOf(FileThreePoints)}

\* lines whose horizontal and spatial lengths are whole numbers
ProfileLines ==
  {l \in [lineStart : ProfileEnds, lineEnd : ProfileEnds] :
     LET d == Sub(l.lineEnd, l.lineStart)
     IN  /\ IsSquare(d[1] * d[1] + d[2] * d[2])
         /\ IsSquare(Dot(d, d))}

InitProfile ==
  /\ isDefaultCloud = FALSE
  /\ measurementTool = NewMeasurementTool
  /\ profileTool = NewProfileTool
  /\ toolSettings = NewToolSettings
  /\ loader = IdleLoader
  /\ clickListeners = <<>>
  /\ content = <<>>
  /\ parsed = Null
  /\ pointCloud \in {Some(c) : c \in ProfileClouds}
  /\ originalColors = Null
  /\ coordinateOffset = ZeroOffset
  /\ viewerOffset = ZeroOffset
  /\ selectionBox = [position |-> <<0, 0, 0>>, quaternion |-> <<0, 0, 0, 1>>,
                     scale |-> <<Unit, Unit, Unit>>]
  /\ boxSettings = [hideOutside |-> TRUE, visible |-> FALSE]
  /\ lastCall = NoCall
  /\ hist = NoHistory
  /\ \E l \in ProfileLines, thickness \in ProfileThicknesses :
       probe = Some([lineStart |-> l.lineStart, lineEnd |-> l.lineEnd,
                     thickness |-> thickness])

ExtractProfile ==
  /\ lastCall.op = "none"
  /\ lastCall' = [NoCall EXCEPT
       !.op = "profile",
       !.points = getProfilePoints(Val(probe).lineStart, Val(probe).lineEnd,
                                   Val(probe).thickness, pointCloud)]
  /\ UNCHANGED <<content, parsed, pointCloud, originalColors, coordinateOffset,
                 viewerOffset, selectionBox, boxSettings, hist, probe,
                 isDefaultCloud,
                 measurementTool, profileTool, toolSettings, loader,
                 clickListeners>>

\* the same profile drawn from the other end: getProfilePoints with
\* lineStart and lineEnd exchanged
SwapEnds ==
  /\ lastCall.op = "profile"
  /\ probe' = Some([Val(probe) EXCEPT !.lineStart = Val(probe).lineEnd,
                                      !.lineEnd = Val(probe).lineStart])
  /\ lastCall' = [NoCall EXCEPT
       !.op = "profileSwapped",
       !.previous = lastCall.points,
       !.points = getProfilePoints(Val(probe).lineEnd, Val(probe).lineStart,
                                   Val(probe).thickness, pointCloud)]
  /\ UNCHANGED <<content, parsed, pointCloud, originalColors, coordinateOffset,
                 viewerOffset, selectionBox, boxSettings, hist, isDefaultCloud,
                 measurementTool, profileTool, toolSettings, loader,
                 clickListeners>>

NextProfile == ExtractProfile \/ SwapEnds

SpecProfile == InitProfile /\ [][NextProfile]_vars

----------------------------------------------------------------------------
(* calculatePointResolution, src/src/ui.js.  A distance and the estimate   *)
(* are fixed-point integers in units of 1/(Unit * Deci), rounded down; a  *)
(* cell of the grid is the set of the numbers of its points (the code      *)
(* keeps them in a list, of which it reads the length, sums over the       *)
(* elements and elements drawn at random).  The function is called with    *)
(* the positions of a dataset that holds at least one point.               *)

Deci == 10
GridSize == 50
MinCellPoints == 10
MaxSamples == 5000
MaxFallbackPoints == 1000
MaxFlatCells == 20
MaxCellSamples == 25
MaxDistanceSamples == 500

\* the largest integer whose square is a 32-bit integer
MaxRoot == 46340

\* Math.sqrt rounded down, by bisection between lo and hi
RECURSIVE SqrtBetween(_, _, _)
SqrtBetween(n, lo, hi) ==
  IF lo >= hi THEN lo
  ELSE IF ((lo + hi + 1) \div 2) * ((lo + hi + 1) \div 2) <= n
       THEN SqrtBetween(n, (lo + hi + 1) \div 2, hi)
       ELSE SqrtBetween(n, lo, ((lo + hi + 1) \div 2) - 1)

FloorSqrt(n) == SqrtBetween(n, 0, Min2(n, MaxRoot))

\* Math.min / Math.max over the values of a loop
Least(S) == CHOOSE m \in S : \A v \in S : m <= v
Greatest(S) == CHOOSE m \in S : \A v \in S : m >= v

\* the numbers 0 .. numPoints - 1 of the points of a position array
PointNumbers(positions) == 0..((Len(positions) \div 3) - 1)

\* sampleInterval = Math.max(1, Math.floor(numPoints / maxSamples))
SampleInterval(numPoints) ==
  Max2(1, numPoints \div Min2(MaxSamples, numPoints))

\* maxX - minX || 1
RangeOrOne(min, max) == IF max - min = 0 THEN Unit ELSE max - min

\* the minima and the ranges of the grid
GridExtent(positions) ==
  [minX |-> Least({ArrayGet(positions, 3 * k) : k \in PointNumbers(positions)}),
   minY |-> Least({ArrayGet(positions, 3 * k + 1) : k \in PointNumbers(positions)}),
   rangeX |-> RangeOrOne(
       Least({ArrayGet(positions, 3 * k) : k \in PointNumbers(positions)}),
       Greatest({ArrayGet(positions, 3 * k) : k \in PointNumbers(positions)})),
   rangeY |-> RangeOrOne(
       Least({ArrayGet(positions, 3 * k + 1) : k \in PointNumbers(positions)}),
       Greatest({ArrayGet(positions, 3 * k + 1) : k \in PointNumbers(positions)}))]

\* Math.floor((x - minX) / cellSizeX) with cellSizeX = rangeX / gridSize
CellIndex(v, min, range) == ((v - min) * GridSize) \div range

\* the key `${cellX},${cellY}` of every point
CellKeys(positions, g) ==
  [k \in PointNumbers(positions) |->
     <<CellIndex(ArrayGet(positions, 3 * k), g.minX, g.rangeX),
       CellIndex(ArrayGet(positions, 3 * k + 1), g.minY, g.rangeY)>>]

\* grid.get(key): the points of a cell
CellPoints(keys, key) == {k \in DOMAIN keys : keys[k] = key}

\* points.reduce((sum, p) => sum + p.z ** power, 0), power 1 or 2
RECURSIVE SumZ(_, _, _)
SumZ(positions, points, power) ==
  IF points = {} THEN 0
  ELSE LET k == CHOOSE k \in points : TRUE
           z == ArrayGet(positions, 3 * k + 2)
       IN  (IF power = 1 THEN z ELSE z * z) + SumZ(positions, points \ {k}, power)

\* mutant of IsFlatCell: the height variation of a cell is not looked at
IsFlatCell_anyHeight(positions, points) == Cardinality(points) >= MinCellPoints

\* a cell of at least 10 points with stdDev < 0.5: with n points the variance
\* is (n * sum z^2 - (sum z)^2) / n^2, and z is counted in 1/Unit
IsFlatCell(positions, points) ==
  /\ Cardinality(points) >= MinCellPoints
  /\ 4 * (Cardinality(points) * SumZ(positions, points, 2)
          - SumZ(positions, points, 1) * SumZ(positions, points, 1))
       < Unit * Unit * Cardinality(points) * Cardinality(points)

\* the cells in the order of the Map: by their first point
RECURSIVE CellsInOrder(_, _)
CellsInOrder(keys, remaining) ==
  IF remaining = {} THEN <<>>
  ELSE LET first == CHOOSE key \in remaining : \A other \in remaining :
                      Least(CellPoints(keys, key)) <= Least(CellPoints(keys, other))
       IN  <<CellPoints(keys, first)>> \o CellsInOrder(keys, remaining \ {first})

\* flatCells after the loop over grid.entries()
FlatCells(positions, keys) ==
  CellsInOrder(keys, {key \in {keys[k] : k \in DOMAIN keys} :
                        IsFlatCell(positions, CellPoints(keys, key))})

\* the fallback: the first points of the array, sampleInterval apart
FallbackCell(positions) ==
  {i * SampleInterval(Len(positions) \div 3) :
     i \in 0..(Min2(MaxFallbackPoints, Len(positions) \div 3) - 1)}

\* dx * dx + dy * dy
DistanceSq(positions, p, o) ==
  (ArrayGet(positions, 3 * p) - ArrayGet(positions, 3 * o))
    * (ArrayGet(positions, 3 * p) - ArrayGet(positions, 3 * o))
  + (ArrayGet(positions, 3 * p + 1) - ArrayGet(positions, 3 * o + 1))
    * (ArrayGet(positions, 3 * p + 1) - ArrayGet(positions, 3 * o + 1))

\* minDist of point p after the loop over the other points of its cell
\* (dist > 0.001 leaves out exactly the distance 0), Infinity when none
NearestDistance(positions, cell, p) ==
  IF {DistanceSq(positions, p, o) : o \in cell \ {p}} \ {0} = {} THEN Infinity
  ELSE FloorSqrt(Least({DistanceSq(positions, p, o) : o \in cell \ {p}} \ {0})
                 * Deci * Deci)

\* what one more sample can make of the sum and the length of `distances`,
\* ds being the minDist of the points that Math.random() can pick
DrawSample(S, ds) ==
  {s \in S : s.count >= MaxDistanceSamples \/ Infinity \in ds}
    \cup {[sum |-> s.sum + d, count |-> s.count + 1] :
            s \in {t \in S : t.count < MaxDistanceSamples}, d \in ds \ {Infinity}}

\* the samples i .. sampleSize - 1 of one cell
RECURSIVE SampleCell(_, _, _, _)
SampleCell(S, ds, i, sampleSize) ==
  IF i >= sampleSize THEN S
  ELSE SampleCell(DrawSample(S, ds), ds, i + 1, sampleSize)

\* the loop over flatCells.slice(0, 20) from cell c on
RECURSIVE SampleCells(_, _, _, _)
SampleCells(positions, S, flatCells, c) ==
  IF c > Min2(MaxFlatCells, Len(flatCells)) THEN S
  ELSE SampleCells(positions,
         SampleCell(S, {NearestDistance(positions, flatCells[c], p) : p \in flatCells[c]},
                    0, Min2(MaxCellSamples, Cardinality(flatCells[c]))),
         flatCells, c + 1)

\* the value returned for the sum and the length of `distances`, with what
\* the call went through: the keys of the points and the number of flat cells
ResolutionEstimate(positions, g, keys, flat, distances) ==
  [value |-> IF distances.count = 0
             THEN FloorSqrt((g.rangeX * g.rangeY * Deci * Deci)
                              \div (Len(positions) \div 3))
             ELSE distances.sum \div distances.count,
   cells |-> [k \in 1..(Len(positions) \div 3) |-> keys[k - 1]],
   flat |-> Len(flat),
   sum |-> distances.sum,
   count |-> distances.count]

\* the values calculatePointResolution can return, one for every outcome of
\* its random sampling
ResolutionEstimates(positions, g, keys, flat) ==
  {ResolutionEstimate(positions, g, keys, flat, distances) :
     distances \in SampleCells(positions, {[sum |-> 0, count |-> 0]},
                               IF Len(flat) = 0 THEN <<FallbackCell(positions)>> ELSE flat,
                               1)}

GriddedEstimates(positions, g, keys) ==
  ResolutionEstimates(positions, g, keys, FlatCells(positions, keys))

calculatePointResolution(positions) ==
  GriddedEstimates(positions, GridExtent(positions),
                   CellKeys(positions, GridExtent(positions)))

\* updateDashboard calls calculatePointResolution(positions)
EstimateResolution ==
  /\ lastCall.op = "none"
  /\ \E estimate \in calculatePointResolution(Val(probe).positions) :
       probe' = Some([Val(probe) EXCEPT !.estimate = Some(estimate)])
  /\ lastCall' = [NoCall EXCEPT !.op = "resolution"]
  /\ UNCHANGED <<content, parsed, pointCloud, originalColors, coordinateOffset,
                 viewerOffset, selectionBox, boxSettings, hist, isDefaultCloud,
                 measurementTool, profileTool, toolSettings, loader,
                 clickListeners>>

NextResolution == EstimateResolution

----------------------------------------------------------------------------
(* Inputs of the estimator: clusters of points in a cell of the grid *)

MaxClusterPoints == 12

\* n points on a lattice four wide with the given spacing, the lower left
\* one at `at`; the heights alternate between 0 and `height`
Cluster(n, at, spacing, height) ==
  [i \in 1..(3 * n) |->
     LET k == (i - 1) \div 3
     IN  IF i % 3 = 1 THEN at[1] + (k % 4) * spacing
         ELSE IF i % 3 = 2 THEN at[2] + (k \div 4) * spacing
         ELSE (k % 2) * height]

ClusterSizes == {1, MinCellPoints - 1, MinCellPoints, MaxClusterPoints}
ClusterSpacings == {0, 1, Unit}
ClusterHeights == {0, 1, 2 * Unit}

\* what lies beside the first cluster: nothing, a far point, a second
\* cluster with a far point
FarPoint == <<200 * Unit, 200 * Unit, 0>>
SecondClusters ==
  {<<>>, FarPoint,
   Cluster(MinCellPoints, <<100 * Unit, 100 * Unit>>, Unit, 0) \o FarPoint,
   Cluster(MinCellPoints, <<100 * Unit, 100 * Unit>>, 1, 2 * Unit) \o FarPoint}

ResolutionClouds ==
  {Cluster(n, <<0, 0>>, spacing, height) \o second :
     n \in ClusterSizes, spacing \in ClusterSpacings, height \in ClusterHeights,
     second \in SecondClusters}

InitResolution ==
  /\ content = <<>>
  /\ parsed = Null
  /\ pointCloud = Null
  /\ originalColors = Null
  /\ coordinateOffset = ZeroOffset
  /\ viewerOffset = ZeroOffset
  /\ selectionBox = [position |-> <<0, 0, 0>>, quaternion |-> <<0, 0, 0, 1>>,
                     scale |-> <<Unit, Unit, Unit>>]
  /\ boxSettings = [hideOutside |-> TRUE, visible |-> FALSE]
  /\ lastCall = NoCall
  /\ hist = NoHistory
  /\ isDefaultCloud = FALSE
  /\ measurementTool = NewMeasurementTool
  /\ profileTool = NewProfileTool
  /\ toolSettings = NewToolSettings
  /\ loader = IdleLoader
  /\ clickListeners = <<>>
  /\ \E positions \in ResolutionClouds :
       probe = Some([positions |-> positions, estimate |-> Null])

SpecResolution == InitResolution /\ [][NextResolution]_vars

----------------------------------------------------------------------------
(* Inputs of the estimator: uniform flat grids of spacing 1.0, in several   *)
(* storage orders                                                           *)

MaxGrid == 5
LargeGridWidth == 40
LargeGridHeight == 50

GridOrders == {"rows", "columns", "reversed", "checkerboard"}

\* the grid node <<column, row>> stored at place k of a grid nx wide and ny
\* high: row by row, column by column, row by row from the last node, or
\* (nx even) the nodes with column + row even first and then the others
GridPlace(nx, ny, order, k) ==
  IF order = "rows" THEN <<k % nx, k \div nx>>
  ELSE IF order = "columns" THEN <<k \div ny, k % ny>>
  ELSE IF order = "reversed"
       THEN <<(nx * ny - 1 - k) % nx, (nx * ny - 1 - k) \div nx>>
  ELSE IF k < (nx \div 2) * ny
       THEN <<2 * (k % (nx \div 2)) + ((k \div (nx \div 2)) % 2),
              k \div (nx \div 2)>>
       ELSE <<2 * ((k - (nx \div 2) * ny) % (nx \div 2))
                + (((k - (nx \div 2) * ny) \div (nx \div 2) + 1) % 2),
              (k - (nx \div 2) * ny) \div (nx \div 2)>>

UniformGrid(nx, ny, order) ==
  [i \in 1..(3 * nx * ny) |->
     IF i % 3 = 1 THEN Unit * GridPlace(nx, ny, order, (i - 1) \div 3)[1]
     ELSE IF i % 3 = 2 THEN Unit * GridPlace(nx, ny, order, (i - 1) \div 3)[2]
     ELSE 0]

UniformGrids ==
  {UniformGrid(size[1], size[2], size[3]) :
     size \in {s \in (1..MaxGrid) \X (1..MaxGrid) \X GridOrders :
                 s[3] = "checkerboard" => s[1] % 2 = 0}}
    \cup {UniformGrid(LargeGridWidth, LargeGridHeight, "checkerboard")}

InitGrid ==
  /\ content = <<>>
  /\ parsed = Null
  /\ pointCloud = Null
  /\ originalColors = Null
  /\ coordinateOffset = ZeroOffset
  /\ viewerOffset = ZeroOffset
  /\ selectionBox = [position |-> <<0, 0, 0>>, quaternion |-> <<0, 0, 0, 1>>,
                     scale |-> <<Unit, Unit, Unit>>]
  /\ boxSettings = [hideOutside |-> TRUE, visible |-> FALSE]
  /\ lastCall = NoCall
  /\ hist = NoHistory
  /\ isDefaultCloud = FALSE
  /\ measurementTool = NewMeasurementTool
  /\ profileTool = NewProfileTool
  /\ toolSettings = NewToolSettings
  /\ loader = IdleLoader
  /\ clickListeners = <<>>
  /\ \E positions \in UniformGrids :
       probe = Some([positions |-> positions, estimate |-> Null])

SpecGrid == InitGrid /\ [][NextResolution]_vars

----------------------------------------------------------------------------
(* MeasurementTool, src/src/measurement.js.  The panels, the labels and the *)
(* rubber-band line drawn on mouse moves are outside the model; a marker is *)
(* the position of its sphere in the scene.                                 *)

MaxMeasurements == 2
MaxListeners == 3

\* the click listener of the measurement tool (onMouseClickBound) and the
\* click handler number id that ProfileTool.startDrawing created
MeasurementListener == [tool |-> "measurement", id |-> 0]
ProfileListener(id) == [tool |-> "profile", id |-> id]

\* addEventListener: a listener already registered is not registered again
AddListener(listeners, l) ==
  IF \E i \in 1..Len(listeners) : listeners[i] = l THEN listeners
  ELSE Append(listeners, l)

\* removeEventListener
RemoveListener(listeners, l) == SelectSeq(listeners, LAMBDA x : x # l)

\* MeasurementTool.clearTemporaryGeometry
clearTemporaryGeometry(tool) == [tool EXCEPT !.startMarker = Null]

\* MeasurementTool.setActive: the tool afterwards
setActive(tool, active) ==
  IF active THEN [tool EXCEPT !.isActive = active]
  ELSE clearTemporaryGeometry([tool EXCEPT !.isActive = active])

\* the click listeners after MeasurementTool.setActive
setActiveListeners(listeners, active) ==
  IF active THEN AddListener(listeners, MeasurementListener)
  ELSE RemoveListener(listeners, MeasurementListener)

\* the measurement completeMeasurement stores
Measurement(tool, startPoint, endPoint) ==
  [startPoint |-> startPoint,
   endPoint |-> endPoint,
   startOriginal |-> <<startPoint[1] + tool.coordinateOffset.x,
                       startPoint[2] + tool.coordinateOffset.y,
                       startPoint[3] + tool.coordinateOffset.z>>,
   endOriginal |-> <<endPoint[1] + tool.coordinateOffset.x,
                     endPoint[2] + tool.coordinateOffset.y,
                     endPoint[3] + tool.coordinateOffset.z>>,
   deltaX |-> endPoint[1] - startPoint[1],
   deltaY |-> endPoint[2] - startPoint[2],
   deltaZ |-> endPoint[3] - startPoint[3],
   startMarker |-> tool.startMarker,
   endMarker |-> Some(endPoint)]

\* mutant of completeMeasurement: the measurement is stored twice
completeMeasurement_twice(tool, startPoint, endPoint) ==
  [tool EXCEPT
     !.measurements = Append(Append(@, Measurement(tool, startPoint, endPoint)),
                             Measurement(tool, startPoint, endPoint)),
     !.startMarker = Null]

\* MeasurementTool.completeMeasurement: the tool afterwards
completeMeasurement(tool, startPoint, endPoint) ==
  [tool EXCEPT
     !.measurements = Append(@, Measurement(tool, startPoint, endPoint)),
     !.startMarker = Null]

\* MeasurementTool.onMouseClick, intersect being what getIntersectedPoint
\* returns: the point hit, or null
onMouseClick(tool, intersect) ==
  IF ~tool.isActive THEN tool
  ELSE IF IsNull(intersect) THEN tool
  ELSE IF tool.isFirstPoint
  THEN [tool EXCEPT !.startPoint = intersect,
                    !.startMarker = intersect,
                    !.isFirstPoint = FALSE]
  ELSE [clearTemporaryGeometry(
          completeMeasurement(tool, Val(tool.startPoint), Val(intersect)))
        EXCEPT !.isFirstPoint = TRUE, !.startPoint = Null]

\* whether clearAllMeasurements throws: it reads the geometry of the start
\* marker and of the end marker of every measurement
ClearAllThrows(tool) ==
  \E i \in 1..Len(tool.measurements) :
    IsNull(tool.measurements[i].startMarker) \/ IsNull(tool.measurements[i].endMarker)

\* MeasurementTool.clearAllMeasurements when it runs to its end
clearAllMeasurements(tool) ==
  [clearTemporaryGeometry([tool EXCEPT !.measurements = <<>>])
   EXCEPT !.isFirstPoint = TRUE, !.startPoint = Null]

----------------------------------------------------------------------------
(* ProfileTool, code listed in src/DEPLOYMENT_FIX_SUMMARY.md.  The panel and *)
(* the canvas are outside the model; startMarkers is the number of objects   *)
(* named profileStartMarker in the scene.                                    *)

ProfileThickness == Unit

\* a number no registered profile handler has
FreshHandler(listeners) ==
  CHOOSE id \in 1..(Len(listeners) + 1) :
    \A i \in 1..Len(listeners) : listeners[i] # ProfileListener(id)

\* ProfileTool.startDrawing: the tool and the click listeners afterwards
startDrawing(tool, listeners, cloud) ==
  IF IsNull(cloud)
  THEN [tool |-> [tool EXCEPT !.isDrawingMode = TRUE,
                              !.profileStartPoint = Null,
                              !.profileEndPoint = Null],
        listeners |-> listeners]
  ELSE [tool |-> [tool EXCEPT !.isDrawingMode = TRUE,
                              !.profileStartPoint = Null,
                              !.profileEndPoint = Null,
                              !.clickHandler = Some(FreshHandler(listeners))],
        listeners |-> Append(listeners, ProfileListener(FreshHandler(listeners)))]

\* the click handler startDrawing created, point being where the ray meets
\* the horizontal plane, or null: the tool and the click listeners afterwards
clickHandler(tool, listeners, point, cloud) ==
  IF ~tool.isDrawingMode \/ IsNull(point)
  THEN [tool |-> tool, listeners |-> listeners]
  ELSE IF IsNull(tool.profileStartPoint)
  THEN [tool |-> [tool EXCEPT !.profileStartPoint = point,
                              !.startMarkers = @ + 1],
        listeners |-> listeners]
  ELSE IF IsNull(tool.profileEndPoint)
  THEN [tool |-> [tool EXCEPT
                    !.profileEndPoint = point,
                    !.isDrawingMode = FALSE,
                    !.startMarkers = IF @ > 0 THEN @ - 1 ELSE @,
                    !.profileLine = Some(<<Val(tool.profileStartPoint), Val(point)>>),
                    !.profilePoints =
                       Some(getProfilePoints(Val(tool.profileStartPoint), Val(point),
                                             ProfileThickness, cloud))],
        listeners |-> RemoveListener(listeners, ProfileListener(Val(tool.clickHandler)))]
  ELSE [tool |-> tool, listeners |-> listeners]

\* ProfileTool.clearProfile: the tool and the click listeners afterwards
clearProfile(tool, listeners) ==
  [tool |-> [tool EXCEPT !.profileLine = Null,
                         !.startMarkers = IF @ > 0 THEN @ - 1 ELSE @,
                         !.profileStartPoint = Null,
                         !.profileEndPoint = Null,
                         !.profilePoints = Null,
                         !.isDrawingMode = FALSE],
   listeners |-> IF IsNull(tool.clickHandler) THEN listeners
                 ELSE RemoveListener(listeners, ProfileListener(Val(tool.clickHandler)))]

----------------------------------------------------------------------------
(* The tools in the application: toolbar, GUI and clicks on the canvas *)

\* one click event on the renderer element: the listeners registered when
\* the event is dispatched are called in the order of their registration, a
\* listener removed meanwhile is not called; st is [measurementTool,
\* profileTool, listeners]
RECURSIVE Dispatch(_, _, _, _, _)
Dispatch(snapshot, i, st, target, cloud) ==
  IF i > Len(snapshot) THEN st
  ELSE IF \A k \in 1..Len(st.listeners) : st.listeners[k] # snapshot[i]
  THEN Dispatch(snapshot, i + 1, st, target, cloud)
  ELSE IF snapshot[i] = MeasurementListener
  THEN Dispatch(snapshot, i + 1,
         [st EXCEPT !.measurementTool = onMouseClick(@, target.intersect)],
         target, cloud)
  ELSE Dispatch(snapshot, i + 1,
         [measurementTool |-> st.measurementTool,
          profileTool |-> clickHandler(st.profileTool, st.listeners,
                                       target.plane, cloud).tool,
          listeners |-> clickHandler(st.profileTool, st.listeners,
                                     target.plane, cloud).listeners],
         target, cloud)

\* the tools are the only part of the application a tool action changes
ToolAction(op, click) ==
  /\ lastCall' = [NoCall EXCEPT !.op = op, !.click = click]
  /\ UNCHANGED <<content, parsed, pointCloud, originalColors, coordinateOffset,
                 viewerOffset, selectionBox, boxSettings, hist, probe,
                 isDefaultCloud, loader>>

\* the state a click event leaves, st being what its listeners left
Clicked(st, target) ==
  /\ Len(st.measurementTool.measurements) <= MaxMeasurements
  /\ measurementTool' = st.measurementTool
  /\ profileTool' = st.profileTool
  /\ clickListeners' = st.listeners
  /\ UNCHANGED toolSettings
  /\ ToolAction("click", target.intersect)

\* a click on the canvas
Click(target) ==
  Clicked(Dispatch(clickListeners, 1,
                   [measurementTool |-> measurementTool, profileTool |-> profileTool,
                    listeners |-> clickListeners], target, pointCloud),
          target)

\* toolbar button 'profile'
ToolbarProfile ==
  /\ toolSettings.profile \/ Len(clickListeners) < MaxListeners
  /\ IF ~toolSettings.profile
     THEN /\ profileTool' = startDrawing(profileTool, clickListeners, pointCloud).tool
          /\ IF toolSettings.measurement
             THEN /\ measurementTool' = setActive(measurementTool, FALSE)
                  /\ clickListeners' = setActiveListeners(
                       startDrawing(profileTool, clickListeners, pointCloud).listeners,
                       FALSE)
             ELSE /\ clickListeners' =
                       startDrawing(profileTool, clickListeners, pointCloud).listeners
                  /\ UNCHANGED measurementTool
          /\ toolSettings' = [toolSettings EXCEPT !.profile = TRUE,
                                                  !.measurement = FALSE]
     ELSE /\ profileTool' = clearProfile(profileTool, clickListeners).tool
          /\ clickListeners' = clearProfile(profileTool, clickListeners).listeners
          /\ toolSettings' = [toolSettings EXCEPT !.profile = FALSE]
          /\ UNCHANGED measurementTool
  /\ ToolAction("toolbarProfile", Null)

\* toolbar button 'measurement'
ToolbarMeasurement ==
  /\ measurementTool' = setActive(measurementTool, ~toolSettings.measurement)
  /\ IF ~toolSettings.measurement /\ toolSettings.profile
     THEN /\ profileTool' = clearProfile(profileTool, clickListeners).tool
          /\ clickListeners' = setActiveListeners(
               clearProfile(profileTool, clickListeners).listeners, TRUE)
          /\ toolSettings' = [toolSettings EXCEPT !.measurement = TRUE,
                                                  !.profile = FALSE]
     ELSE /\ clickListeners' =
               setActiveListeners(clickListeners, ~toolSettings.measurement)
          /\ toolSettings' = [toolSettings EXCEPT !.measurement = ~@]
          /\ UNCHANGED profileTool
  /\ ToolAction("toolbarMeasurement", Null)

\* GUI checkbox 'Activate Measurement'
MeasurementCheckbox ==
  /\ toolSettings' = [toolSettings EXCEPT !.measurement = ~@]
  /\ measurementTool' = setActive(measurementTool, ~toolSettings.measurement)
  /\ clickListeners' = setActiveListeners(clickListeners, ~toolSettings.measurement)
  /\ UNCHANGED profileTool
  /\ ToolAction("measurementCheckbox", Null)

\* GUI button 'Delete All Measurements'
ClearAllButton ==
  /\ IF ClearAllThrows(measurementTool)
     THEN /\ UNCHANGED measurementTool
          /\ ToolAction("clearAllThrew", Null)
     ELSE /\ measurementTool' = clearAllMeasurements(measurementTool)
          /\ ToolAction("clearAll", Null)
  /\ UNCHANGED <<profileTool, toolSettings, clickListeners>>

\* GUI button 'Draw Profile Line'
DrawProfileButton ==
  /\ Len(clickListeners) < MaxListeners
  /\ toolSettings' = [toolSettings EXCEPT !.profile = TRUE]
  /\ profileTool' = startDrawing(profileTool, clickListeners, pointCloud).tool
  /\ clickListeners' = startDrawing(profileTool, clickListeners, pointCloud).listeners
  /\ UNCHANGED measurementTool
  /\ ToolAction("drawProfile", Null)

\* GUI button 'Clear Profile'
ClearProfileButton ==
  /\ toolSettings' = [toolSettings EXCEPT !.profile = FALSE]
  /\ profileTool' = clearProfile(profileTool, clickListeners).tool
  /\ clickListeners' = clearProfile(profileTool, clickListeners).listeners
  /\ UNCHANGED measurementTool
  /\ ToolAction("clearProfile", Null)

\* what a click can meet: a point of the cloud or none, and a point of the
\* horizontal plane or none
ClickTargets(cloud) ==
  {[intersect |-> i, plane |-> p] :
     i \in {Null} \cup (IF IsNull(cloud) THEN {}
                        ELSE {Some(PointAt(Val(cloud).positions, 3 * k)) :
                                k \in 0..((Len(Val(cloud).positions) \div 3) - 1)}),
     p \in {Null, Some(<<0, 0, 0>>), Some(<<2 * Unit, Unit, 0>>)}}

\* clicks beside the cloud: the ray hits no point
PlaneTargets(cloud) == {target \in ClickTargets(cloud) : IsNull(target.intersect)}

\* the toolbar, the GUI of the two tools and clicks beside the cloud
NextTools ==
  \/ \E target \in PlaneTargets(pointCloud) : Click(target)
  \/ ToolbarProfile
  \/ ToolbarMeasurement
  \/ MeasurementCheckbox
  \/ DrawProfileButton
  \/ ClearProfileButton

\* the application with a file on display, or with no point cloud at all
InitTools ==
  /\ content = <<>>
  /\ parsed = Null
  /\ originalColors = Null
  /\ selectionBox = [position |-> <<0, 0, 0>>, quaternion |-> <<0, 0, 0, 1>>,
                     scale |-> <<Unit, Unit, Unit>>]
  /\ boxSettings = [hideOutside |-> TRUE, visible |-> FALSE]
  /\ lastCall = NoCall
  /\ hist = NoHistory
  /\ probe = Null
  /\ isDefaultCloud = FALSE
  /\ toolSettings = NewToolSettings
  /\ loader = IdleLoader
  /\ clickListeners = <<>>
  /\ \/ /\ pointCloud = Null
        /\ coordinateOffset = ZeroOffset
        /\ viewerOffset = ZeroOffset
        /\ measurementTool = NewMeasurementTool
        /\ profileTool = NewProfileTool
     \/ \E text \in {FileTwoPoints} :
          LET r == ParsedFiles[text]
              c == centerPositions(r.positions, r.bounds)
          IN  /\ pointCloud = Some([positions |-> c.centeredPositions,
                                    colors |-> r.colors])
              /\ coordinateOffset = c.offset
              /\ viewerOffset = c.offset
              /\ measurementTool =
                   [NewMeasurementTool EXCEPT !.coordinateOffset = c.offset]
              /\ profileTool = [NewProfileTool EXCEPT !.coordinateOffset = c.offset]

SpecTools == InitTools /\ [][NextTools]_vars

\* the measurement tool alone: its toolbar button, its checkbox, clicks on the
\* canvas and 'Delete All Measurements'
NextMeasure ==
  \/ \E target \in ClickTargets(pointCloud) : Click(target)
  \/ ToolbarMeasurement
  \/ MeasurementCheckbox
  \/ ClearAllButton

SpecMeasure == InitTools /\ [][NextMeasure]_vars

----------------------------------------------------------------------------
(* calculateZHistogram, src/src/ui.js.  Heights are integers; the quotient  *)
(* (z - minZ) / binSize is taken exactly, NaN is Null and an infinite       *)
(* quotient is Infinity.                                                    *)

NumBins == 10

\* Math.floor((z - minZ) / binSize) with binSize = (maxZ - minZ) / numBins
BinQuotient(z, minZ, maxZ, numBins) ==
  LET range == maxZ - minZ
  IN  IF range # 0 THEN Some(((z - minZ) * numBins) \div range)
      ELSE IF z = minZ THEN Null
      ELSE IF z > minZ THEN Some(Infinity)
      ELSE Some(-Infinity)

\* the two clamps: a comparison with NaN is false and leaves it as it is
BinIndex(z, minZ, maxZ, numBins) ==
  LET q == BinQuotient(z, minZ, maxZ, numBins)
  IN  IF IsNull(q) THEN Null
      ELSE IF Val(q) >= numBins THEN Some(numBins - 1)
      ELSE IF Val(q) < 0 THEN Some(0)
      ELSE q

\* the counting loop from index i on; bins[NaN]++ sets a property of the
\* array that is not one of its elements
RECURSIVE HistogramLoop(_, _, _, _, _, _)
HistogramLoop(positions, i, bins, minZ, maxZ, numBins) ==
  IF i >= Len(positions) THEN bins
  ELSE LET binIndex == BinIndex(ArrayGet(positions, i + 2), minZ, maxZ, numBins)
       IN  HistogramLoop(positions, i + 3,
             IF IsNull(binIndex) THEN bins
             ELSE [bins EXCEPT ![Val(binIndex) + 1] = @ + 1],
             minZ, maxZ, numBins)

calculateZHistogram(positions, minZ, maxZ, numBins) ==
  HistogramLoop(positions, 0, [b \in 1..numBins |-> 0], minZ, maxZ, numBins)

\* the heights of the points of positions
Heights(positions) ==
  {ArrayGet(positions, 3 * k + 2) : k \in 0..((Len(positions) \div 3) - 1)}

\* updateDashboard: the histogram of the positions over the bounds of the
\* dataset, the least and the greatest height of its points
UpdateHistogram ==
  /\ lastCall.op = "none"
  /\ LET positions == Val(probe).positions
         minZ == CHOOSE m \in Heights(positions) : \A z \in Heights(positions) : m <= z
         maxZ == CHOOSE m \in Heights(positions) : \A z \in Heights(positions) : m >= z
     IN  probe' = Some([Val(probe) EXCEPT
                          !.histogram = Some(calculateZHistogram(positions, minZ, maxZ,
                                                                 NumBins))])
  /\ lastCall' = [NoCall EXCEPT !.op = "histogram"]
  /\ UNCHANGED <<content, parsed, pointCloud, originalColors, coordinateOffset,
                 viewerOffset, selectionBox, boxSettings, hist, isDefaultCloud,
                 measurementTool, profileTool, toolSettings, loader,
                 clickListeners>>

NextHistogram == UpdateHistogram

----------------------------------------------------------------------------
(* Inputs of the histogram: datasets of up to MaxHistogramPoints points *)

MaxHistogramPoints == 3
MaxHeight == 3

HistogramHeights == (-MaxHeight)..MaxHeight

\* the points <<0, 0, z>> of a sequence of heights
HistogramCloud(zs) ==
  [i \in 1..(3 * Len(zs)) |-> IF i % 3 = 0 THEN zs[i \div 3] ELSE 0]

HistogramClouds ==
  UNION {{HistogramCloud(zs) : zs \in [1..n -> HistogramHeights]} :
           n \in 1..MaxHistogramPoints}

InitHistogram ==
  /\ content = <<>>
  /\ parsed = Null
  /\ pointCloud = Null
  /\ originalColors = Null
  /\ coordinateOffset = ZeroOffset
  /\ viewerOffset = ZeroOffset
  /\ selectionBox = [position |-> <<0, 0, 0>>, quaternion |-> <<0, 0, 0, 1>>,
                     scale |-> <<Unit, Unit, Unit>>]
  /\ boxSettings = [hideOutside |-> TRUE, visible |-> FALSE]
  /\ lastCall = NoCall
  /\ hist = NoHistory
  /\ isDefaultCloud = FALSE
  /\ measurementTool = NewMeasurementTool
  /\ profileTool = NewProfileTool
  /\ toolSettings = NewToolSettings
  /\ loader = IdleLoader
  /\ clickListeners = <<>>
  /\ \E positions \in HistogramClouds :
       probe = Some([positions |-> positions, histogram |-> Null])

SpecHistogram == InitHistogram /\ [][NextHistogram]_vars

----------------------------------------------------------------------------
(* Loading step by step (src/unnamed/part_003, loadFile): the read of a     *)
(* file completes, the explosion animation of the default cloud runs frame  *)
(* by frame, processNewFile shows the spinner and defers its body by        *)
(* setTimeout.  The positions and the opacity the frames of the animation   *)
(* change on the cloud they remove are outside the model.                   *)

MaxReads == 3

\* processNewFile up to its setTimeout, for read number id
StartProcessing(l, id) ==
  [l EXCEPT !.spinner = TRUE, !.timers = Append(@, id)]

\* reader.onload of a file with the text `text`
ReadComplete(text) ==
  /\ Len(loader.reads) < MaxReads
  /\ loader' =
       IF isDefaultCloud /\ ~IsNull(pointCloud)
       THEN [loader EXCEPT !.reads = Append(@, text),
                           !.explosions = Append(@, Len(loader.reads) + 1)]
       ELSE StartProcessing([loader EXCEPT !.reads = Append(@, text)],
                            Len(loader.reads) + 1)
  /\ lastCall' = [NoCall EXCEPT !.op = "read"]
  /\ UNCHANGED <<content, parsed, pointCloud, originalColors, coordinateOffset,
                 viewerOffset, selectionBox, boxSettings, hist, probe,
                 isDefaultCloud, measurementTool, profileTool, toolSettings,
                 clickListeners>>

\* the last frame of the explosion that started first: the cloud is removed
\* and the callback calls processNewFile
ExplosionEnds ==
  /\ loader.explosions # <<>>
  /\ isDefaultCloud
  /\ pointCloud' = animateExplosion(pointCloud, isDefaultCloud).pointCloud
  /\ isDefaultCloud' = animateExplosion(pointCloud, isDefaultCloud).isDefaultCloud
  /\ loader' = StartProcessing([loader EXCEPT !.explosions = Tail(@)],
                               Head(loader.explosions))
  /\ lastCall' = [NoCall EXCEPT !.op = "exploded"]
  /\ UNCHANGED <<content, parsed, originalColors, coordinateOffset,
                 viewerOffset, selectionBox, boxSettings, hist, probe,
                 measurementTool, profileTool, toolSettings, clickListeners>>

\* a frame of an explosion that is still running when another one has ended:
\* explosionVelocities is null by then, reading it throws, and the callback
\* of this animation is never called
ExplosionFrameThrows ==
  /\ loader.explosions # <<>>
  /\ ~isDefaultCloud
  /\ loader' = [loader EXCEPT !.explosions = Tail(@)]
  /\ lastCall' = [NoCall EXCEPT !.op = "frameThrew"]
  /\ UNCHANGED <<content, parsed, pointCloud, originalColors, coordinateOffset,
                 viewerOffset, selectionBox, boxSettings, hist, probe,
                 isDefaultCloud, measurementTool, profileTool, toolSettings,
                 clickListeners>>

\* the body of processNewFile of the oldest pending setTimeout
TimeoutFires ==
  /\ loader.timers # <<>>
  /\ content' = loader.reads[Head(loader.timers)]
  /\ Parsed(ParsedFiles[loader.reads[Head(loader.timers)]],
            [pointCloud |-> pointCloud, isDefaultCloud |-> isDefaultCloud],
            [loader EXCEPT !.timers = Tail(@),
                           !.processed = Append(@, Head(loader.timers))])
  /\ UNCHANGED <<probe, toolSettings, clickListeners>>

\* the body of processNewFile when an exception is thrown in it: the catch
\* block hides the spinner
TimeoutThrows ==
  /\ loader.timers # <<>>
  /\ content' = loader.reads[Head(loader.timers)]
  /\ loader' = [loader EXCEPT !.timers = Tail(@),
                              !.processed = Append(@, Head(loader.timers)),
                              !.spinner = FALSE]
  /\ lastCall' = [NoCall EXCEPT !.op = "loadThrew"]
  /\ UNCHANGED <<parsed, pointCloud, originalColors, coordinateOffset,
                 viewerOffset, selectionBox, boxSettings, hist, probe,
                 isDefaultCloud, measurementTool, profileTool, toolSettings,
                 clickListeners>>

NextLoad ==
  \/ \E text \in Files : ReadComplete(text)
  \/ ExplosionEnds
  \/ ExplosionFrameThrows
  \/ TimeoutFires
  \/ TimeoutThrows

\* animation frames and timers are run by the browser: a pending one runs
SpecLoad ==
  /\ Init
  /\ [][NextLoad]_vars
  /\ WF_vars(ExplosionEnds)
  /\ WF_vars(ExplosionFrameThrows)
  /\ WF_vars(TimeoutFires \/ TimeoutThrows)


----------------------------------------------------------------------------
(* Reference geometry for the properties: the rotation of a vector by the   *)
(* box quaternion as the product q v q^-1 of quaternions                    *)

HamiltonProduct(a, b) ==
  <<a[4] * b[1] + a[1] * b[4] + a[2] * b[3] - a[3] * b[2],
    a[4] * b[2] - a[1] * b[3] + a[2] * b[4] + a[3] * b[1],
    a[4] * b[3] + a[1] * b[2] - a[2] * b[1] + a[3] * b[4],
    a[4] * b[4] - a[1] * b[1] - a[2] * b[2] - a[3] * b[3]>>

Conjugate(q) == <<-q[1], -q[2], -q[3], q[4]>>

\* q v q^-1
RotateBy(q, v) ==
  LET r == HamiltonProduct(HamiltonProduct(q, <<v[1], v[2], v[3], 0>>), Conjugate(q))
  IN  <<r[1] \div QNorm(q), r[2] \div QNorm(q), r[3] \div QNorm(q)>>

\* the coordinates of a world point in the frame of the box (translation and
\* rotation undone, scale left alone), and back
LocalCoordinates(point, box) ==
  RotateBy(Conjugate(box.quaternion), Sub(point, box.position))

WorldCoordinates(l, box) ==
  LET r == RotateBy(box.quaternion, l)
  IN  <<r[1] + box.position[1], r[2] + box.position[2], r[3] + box.position[3]>>

\* all three local coordinates divided by the scale are within [-0.5, 0.5]
WithinUnitCube(point, box) ==
  LET l == LocalCoordinates(point, box)
  IN  \A a \in 1..3 : box.scale[a] # 0 /\ 2 * Abs(l[a]) <= Abs(box.scale[a])

\* the points of a position array, numbered from 0
PointCount(positions) == Len(positions) \div 3
PointIndices(positions) == 0..(PointCount(positions) - 1)

----------------------------------------------------------------------------
(* Properties *)

\* C1 (parser half, all texts): parseXYZFile returns position and colour
\* arrays of length 3 * count for every text of Texts, also when count is 0.
ParserLengthsAgree ==
  \A t \in Texts :
    LET r == parseXYZFile(t)
    IN  Len(r.positions) = 3 * r.count /\ Len(r.colors) = 3 * r.count

\* C1: the arrays returned by parseXYZFile have length 3 * count, and the
\* position and colour arrays of the point cloud on display keep length
\* 3 * count of the loaded dataset through select, restore and Z inversion.
C1_ArrayLengths ==
  /\ ParserLengthsAgree
  /\ ~IsNull(parsed) =>
       /\ Len(Val(parsed).positions) = 3 * Val(parsed).count
       /\ Len(Val(parsed).colors) = 3 * Val(parsed).count
  /\ ~IsNull(pointCloud) =>
       /\ Len(Val(pointCloud).positions) = 3 * hist.count
       /\ Len(Val(pointCloud).colors) = 3 * hist.count

\* a three-point cloud that was selected on, inverted and restored
C1_Witness ==
  /\ ~IsNull(pointCloud)
  /\ hist.count = 3
  /\ hist.inverted
  /\ hist.selected
  /\ lastCall.op = "restore"

\* the first character of the line that holds position i of the text
RECURSIVE LineStart(_, _)
LineStart(s, i) ==
  IF i = 1 \/ s[i - 1] = "\n" THEN i ELSE LineStart(s, i - 1)

\* C2: no point is read from a line that begins with "#" (a blank line has
\* no token at all): no token character of an emitted point lies on a
\* comment line.
C2_CommentLinesSkipped ==
  ~IsNull(parsed) =>
    \A k \in 1..Len(Val(parsed).matches) :
      \A i \in Val(parsed).matches[k].from..(Val(parsed).matches[k].to - 1) :
        content[i] \notin Whitespace => content[LineStart(content, i)] # "#"

\* C3: the three tokens of every emitted point lie on one line: the text a
\* point is read from holds no line break.
C3_PointFromOneLine ==
  ~IsNull(parsed) =>
    \A k \in 1..Len(Val(parsed).matches) :
      \A i \in Val(parsed).matches[k].from..(Val(parsed).matches[k].to - 1) :
        content[i] # "\n"

\* C4: selectPointsInBox selects a point exactly when its local coordinates
\* (translation and rotation of the box undone), divided by the scale, are
\* all within [-0.5, 0.5], boundary included; the box centre is selected when
\* all scales are positive, and a point with a local coordinate above 0.5 is
\* not selected.
C4_Containment ==
  lastCall.op = "select" =>
    LET point == Val(pointCloud).positions
        l == LocalCoordinates(point, selectionBox)
        sc == selectionBox.scale
    IN  /\ WorldCoordinates(l, selectionBox) = point
        /\ lastCall.inside = <<WithinUnitCube(point, selectionBox)>>
        /\ lastCall.selectedCount = (IF WithinUnitCube(point, selectionBox) THEN 1 ELSE 0)
        /\ (point = selectionBox.position /\ \A a \in 1..3 : sc[a] > 0)
             => lastCall.inside[1]
        /\ (\E a \in 1..3 : sc[a] # 0 /\ 2 * l[a] * sc[a] > sc[a] * sc[a])
             => ~lastCall.inside[1]

\* a point away from the centre, on the boundary of a box turned by 120
\* degrees about the diagonal, was selected
C4_Witness ==
  /\ lastCall.op = "select"
  /\ lastCall.inside = <<TRUE>>
  /\ selectionBox.quaternion = <<1, 1, 1, 1>>
  /\ Val(pointCloud).positions # selectionBox.position
  /\ \E a \in 1..3 :
       2 * Abs(LocalCoordinates(Val(pointCloud).positions, selectionBox)[a])
         = Abs(selectionBox.scale[a])

\* the colour the select pass leaves on component c (0, 1, 2) of point k
ExpectedColor(k, c) ==
  IF WithinUnitCube(PointAt(Val(pointCloud).positions, 3 * k), selectionBox)
     \/ ~boxSettings.hideOutside
  THEN ArrayGet(Val(originalColors), 3 * k + c)
  ELSE FadedColor

\* C5: after selectPointsInBox the return value is the number of points
\* within the box, every point within it shows its snapshot colour and every
\* other point the faded colour (hideOutside) or its snapshot colour, whatever
\* calls came before.
C5_SelectRecolours ==
  (lastCall.op = "select" /\ ~IsNull(pointCloud)) =>
    LET positions == Val(pointCloud).positions
    IN  /\ ~IsNull(originalColors)
        /\ lastCall.selectedCount =
             Cardinality({k \in PointIndices(positions) :
                            WithinUnitCube(PointAt(positions, 3 * k), selectionBox)})
        /\ \A k \in PointIndices(positions) : \A c \in 0..2 :
             ArrayGet(Val(pointCloud).colors, 3 * k + c) = ExpectedColor(k, c)

\* a select with hideOutside on a turned box that found points on both sides
C5_Witness ==
  /\ lastCall.op = "select"
  /\ ~IsNull(pointCloud)
  /\ boxSettings.hideOutside
  /\ selectionBox.quaternion # <<0, 0, 0, 1>>
  /\ lastCall.selectedCount > 0
  /\ lastCall.selectedCount < hist.count

\* C6: restoreOriginalColors after select calls on a dataset sets every colour
\* component to the value it had before the first select on that dataset;
\* without a snapshot it changes nothing (on the cloud on display, whatever
\* its colours are at the time).
C6_RestoreBaseline ==
  [][/\ lastCall'.op = "restore" =>
          Val(pointCloud').colors =
            (IF IsNull(originalColors) THEN Val(pointCloud).colors ELSE hist.baseline)
     /\ ~IsNull(pointCloud') =>
          restoreOriginalColors(Val(pointCloud').colors, Null) = Val(pointCloud').colors]_vars

\* a restore that changed colours and left the colours of before the first select
C6_Witness ==
  /\ lastCall.op = "restore"
  /\ lastCall.changed > 0
  /\ ~IsNull(originalColors)
  /\ Val(pointCloud).colors = hist.baseline

\* the height colours of a position array
DatasetColors(positions) ==
  recalculateColorsFromZ(positions, Float32Array(Len(positions)))

FlipZ(positions) ==
  [i \in 1..Len(positions) |-> IF i % 3 = 0 THEN -positions[i] ELSE positions[i]]

\* C7: a successful load leaves no snapshot; a snapshot, when there is one,
\* was taken from the dataset on display and has the length of its colour
\* array; every colour of a cloud loaded from a file is the faded colour or a
\* height colour of the dataset on display.
C7_SnapshotOfCurrentDataset ==
  /\ lastCall.op = "load" => IsNull(originalColors)
  /\ (~IsNull(originalColors) /\ ~IsNull(pointCloud)) =>
       /\ hist.snapshotCurrent
       /\ Len(Val(originalColors)) = Len(Val(pointCloud).colors)
  /\ (~IsNull(pointCloud) /\ ~isDefaultCloud) =>
       \A i \in 1..Len(Val(pointCloud).colors) :
         Val(pointCloud).colors[i] \in
           {FadedColor,
            DatasetColors(Val(pointCloud).positions)[i],
            DatasetColors(FlipZ(Val(pointCloud).positions))[i]}

\* a snapshot taken on a dataset whose load discarded an earlier snapshot
C7_Witness ==
  /\ hist.dropped
  /\ ~IsNull(originalColors)
  /\ hist.snapshotCurrent

\* the lines an export of the dataset on display should hold: the parsed
\* coordinates (Z negated when the vertical axis is inverted) of the points
\* within the box, in scan order
RECURSIVE ExpectedLines(_, _)
ExpectedLines(k, acc) ==
  IF k >= hist.count THEN acc
  ELSE ExpectedLines(k + 1,
         IF WithinUnitCube(PointAt(Val(pointCloud).positions, 3 * k), selectionBox)
         THEN Append(acc,
                <<toFixed2(ArrayGet(hist.raw, 3 * k)),
                  toFixed2(ArrayGet(hist.raw, 3 * k + 1)),
                  toFixed2(IF hist.inverted THEN -ArrayGet(hist.raw, 3 * k + 2)
                           ELSE ArrayGet(hist.raw, 3 * k + 2))>>)
         ELSE acc)

\* C8: saveSelectedPoints writes one line per point within the box, as many
\* as selectPointsInBox counts, in scan order, each holding the coordinates
\* parsed from the file.
C8_ExportOriginalCoordinates ==
  (lastCall.op = "save" /\ ~IsNull(pointCloud)) =>
    /\ Len(lastCall.lines) =
         selectPointsInBox(Val(pointCloud), originalColors, selectionBox,
                           boxSettings.hideOutside).selectedCount
    /\ lastCall.lines = ExpectedLines(0, <<>>)

\* C9: a line whose ends coincide in the horizontal plane yields no profile
\* point.
C9_ZeroLengthLineEmpty ==
  (/\ lastCall.op = "profile"
   /\ Val(probe).lineStart[1] = Val(probe).lineEnd[1]
   /\ Val(probe).lineStart[2] = Val(probe).lineEnd[2])
    => lastCall.points = <<>>

\* C10: with a scale component of 0, selectPointsInBox selects nothing and
\* returns 0 and saveSelectedPoints writes no line.
C10_ZeroScaleSelectsNothing ==
  (\E a \in 1..3 : selectionBox.scale[a] = 0) =>
    /\ lastCall.op = "select" =>
         /\ lastCall.selectedCount = 0
         /\ \A k \in 1..Len(lastCall.inside) : ~lastCall.inside[k]
    /\ lastCall.op = "save" => lastCall.lines = <<>>

\* a select on a box collapsed on some axis, with a point lying in the
\* collapsed plane and within the box on the other axes
C10_Witness ==
  /\ lastCall.op = "select"
  /\ ~IsNull(pointCloud)
  /\ \E a \in 1..3 : selectionBox.scale[a] = 0
  /\ \E k \in PointIndices(Val(pointCloud).positions) :
       LET l == LocalCoordinates(PointAt(Val(pointCloud).positions, 3 * k), selectionBox)
       IN  \A a \in 1..3 : 2 * Abs(l[a]) <= Abs(selectionBox.scale[a])

----------------------------------------------------------------------------
(* Reference geometry of the profile slice, in the horizontal plane *)

\* twice the signed area of the horizontal triangle a, b, p; its absolute value
\* over the horizontal length of a b is the perpendicular horizontal distance
\* of p to the vertical plane through a and b
HorizontalCross(p, a, b) ==
  (b[1] - a[1]) * (p[2] - a[2]) - (b[2] - a[2]) * (p[1] - a[1])

HorizontalLengthSq(a, b) ==
  (b[1] - a[1]) * (b[1] - a[1]) + (b[2] - a[2]) * (b[2] - a[2])

\* the perpendicular horizontal distance of p to the plane is <= thickness / 2
NearPlane(p, a, b, thickness) ==
  4 * HorizontalCross(p, a, b) * HorizontalCross(p, a, b)
    <= thickness * thickness * HorizontalLengthSq(a, b)

\* the positions in the cloud of the points of a profile, in output order
IndicesOf(points) == [j \in 1..Len(points) |-> points[j].index]

\* C11: for a line of non-zero horizontal length getProfilePoints returns
\* exactly the points within thickness / 2 of the vertical plane through the
\* line, boundary included, in the order of the position array.
C11_ProfileFilter ==
  (/\ lastCall.op \in {"profile", "profileSwapped"}
   /\ HorizontalLengthSq(Val(probe).lineStart, Val(probe).lineEnd) # 0) =>
    LET positions == Val(pointCloud).positions
        idx == IndicesOf(lastCall.points)
    IN  /\ \A j \in 1..(Len(idx) - 1) : idx[j] < idx[j + 1]
        /\ {idx[j] : j \in 1..Len(idx)} =
             {k \in PointIndices(positions) :
                NearPlane(PointAt(positions, 3 * k), Val(probe).lineStart,
                          Val(probe).lineEnd, Val(probe).thickness)}

\* a profile that holds a point exactly thickness / 2 off the plane and
\* leaves another point out
C11_Witness ==
  /\ lastCall.op = "profile"
  /\ Val(probe).thickness > 0
  /\ HorizontalLengthSq(Val(probe).lineStart, Val(probe).lineEnd) # 0
  /\ Len(lastCall.points) < PointCount(Val(pointCloud).positions)
  /\ \E j \in 1..Len(lastCall.points) :
       LET c == HorizontalCross(PointAt(Val(pointCloud).positions,
                                        3 * lastCall.points[j].index),
                                Val(probe).lineStart, Val(probe).lineEnd)
       IN  4 * c * c = Val(probe).thickness * Val(probe).thickness
                         * HorizontalLengthSq(Val(probe).lineStart, Val(probe).lineEnd)

\* C12: the distance of every profile point is (point - lineStart) projected
\* on the normalized horizontal direction of the line, whatever the heights
\* of the point and of the two ends.
C12_HorizontalDistance ==
  (/\ lastCall.op = "profile"
   /\ HorizontalLengthSq(Val(probe).lineStart, Val(probe).lineEnd) # 0) =>
    \A j \in 1..Len(lastCall.points) :
      LET a == Val(probe).lineStart
          b == Val(probe).lineEnd
          p == PointAt(Val(pointCloud).positions, 3 * lastCall.points[j].index)
      IN  lastCall.points[j].distance.num * ISqrt(HorizontalLengthSq(a, b))
            = lastCall.points[j].distance.den
                * ((p[1] - a[1]) * (b[1] - a[1]) + (p[2] - a[2]) * (b[2] - a[2]))

\* C13: with lineStart and lineEnd exchanged getProfilePoints returns the
\* same points in the same order, and the distance of each point from the new
\* start and its distance from the old start add up to the length of the line.
C13_SwapSymmetry ==
  lastCall.op = "profileSwapped" =>
    /\ IndicesOf(lastCall.points) = IndicesOf(lastCall.previous)
    /\ \A j \in 1..Len(lastCall.points) :
         LET new == lastCall.points[j].distance
             old == lastCall.previous[j].distance
             d == Sub(Val(probe).lineEnd, Val(probe).lineStart)
         IN  new.num * old.den + old.num * new.den
               = ISqrt(Dot(d, d)) * new.den * old.den

\* a slanted line drawn both ways that takes some points and leaves others
C13_Witness ==
  /\ lastCall.op = "profileSwapped"
  /\ Len(lastCall.points) > 0
  /\ Len(lastCall.points) < PointCount(Val(pointCloud).positions)
  /\ Val(probe).lineStart[1] # Val(probe).lineEnd[1]
  /\ Val(probe).lineStart[2] # Val(probe).lineEnd[2]
----------------------------------------------------------------------------
(* Z inversion and loading *)

\* component i (from 1) of the viewer's coordinate offset laid along a
\* position array
OffsetAt(offset, i) ==
  IF i % 3 = 1 THEN offset.x ELSE IF i % 3 = 2 THEN offset.y ELSE offset.z

\* C14: a Z inversion negates the centred Z of every point and the Z of the
\* viewer's offset and keeps every X and Y, so that centred value plus offset
\* is the parsed coordinate with Z negated while inverted and the parsed
\* coordinate again after a second inversion.
C14_InvertZ ==
  [][/\ (hist'.inverted # hist.inverted /\ lastCall'.op # "load") =>
          /\ Val(pointCloud').positions = FlipZ(Val(pointCloud).positions)
          /\ viewerOffset' = [viewerOffset EXCEPT !.z = -viewerOffset.z]
     /\ ~IsNull(pointCloud') =>
          \A i \in 1..Len(Val(pointCloud').positions) :
            Val(pointCloud').positions[i] + OffsetAt(viewerOffset', i)
              = (IF hist'.inverted THEN FlipZ(hist'.raw)[i] ELSE hist'.raw[i])]_vars

\* a second inversion of a dataset whose Z offset is not 0
C14_Witness ==
  /\ lastCall.op = "invert"
  /\ ~hist.inverted
  /\ viewerOffset.z # 0
  /\ \E i \in 1..Len(Val(pointCloud).positions) :
       i % 3 = 0 /\ Val(pointCloud).positions[i] # 0

\* C15: a load from which zero points are parsed leaves the displayed point
\* cloud, the stored coordinate offsets and the colour snapshot as they were
\* before the attempt.
C15_EmptyLoadLeavesState ==
  [][lastCall'.op = "loadFailed" =>
       /\ pointCloud' = pointCloud
       /\ coordinateOffset' = coordinateOffset
       /\ viewerOffset' = viewerOffset
       /\ originalColors' = originalColors]_vars

\* C16: centerPositions returns as offset the midpoint of the bounds on each
\* axis and the positions shifted by exactly that offset: on every axis the
\* centred minimum plus the centred maximum is zero, and adding the offset
\* back gives the input positions.
C16_Centering ==
  lastCall.op = "center" =>
    LET r == Val(parsed)
        c == Val(probe)
    IN  /\ 2 * c.offset.x = r.bounds.minX + r.bounds.maxX
        /\ 2 * c.offset.y = r.bounds.minY + r.bounds.maxY
        /\ 2 * c.offset.z = r.bounds.minZ + r.bounds.maxZ
        /\ Len(c.centeredPositions) = Len(r.positions)
        /\ \A i \in 1..Len(r.positions) :
             /\ c.centeredPositions[i] = r.positions[i] - OffsetAt(c.offset, i)
             /\ c.centeredPositions[i] + OffsetAt(c.offset, i) = r.positions[i]
        /\ \A a \in 0..2 :
             AxisMin(c.centeredPositions, a, 0, Infinity)
               + AxisMax(c.centeredPositions, a, 0, -Infinity) = 0

\* several points were centred about a midpoint away from the origin that
\* is itself no point of the dataset
C16_Witness ==
  /\ lastCall.op = "center"
  /\ Val(parsed).count >= 2
  /\ Val(probe).offset.x # 0
  /\ Val(probe).offset.z # 0
  /\ \A k \in PointIndices(Val(parsed).positions) :
       ArrayGet(Val(probe).centeredPositions, 3 * k) # 0

\* coordinate `axis` (0, 1, 2) of the points emitted by a parse
EmittedCoordinates(r, axis) ==
  {ArrayGet(r.positions, 3 * k + axis) : k \in 0..(r.count - 1)}

C18_BucketIndexInGrid ==
  lastCall.op = "resolution" =>
    \A k \in 1..Len(Val(Val(probe).estimate).cells) :
      /\ Val(Val(probe).estimate).cells[k][1] \in 0..(GridSize - 1)
      /\ Val(Val(probe).estimate).cells[k][2] \in 0..(GridSize - 1)

----------------------------------------------------------------------------
(* Reference for the resolution estimate: buckets, flatness and nearest    *)
(* neighbours as the specification words them                              *)

\* the points that share the bucket of point k
BucketOf(cells, k) == {o \in 0..(Len(cells) - 1) : cells[o + 1] = cells[k + 1]}

Buckets(cells) == {BucketOf(cells, k) : k \in 0..(Len(cells) - 1)}

\* the sum over the points of S of (scale * z - shift) ^ 2
RECURSIVE SquaresSum(_, _, _, _)
SquaresSum(positions, S, scale, shift) ==
  IF S = {} THEN 0
  ELSE LET k == CHOOSE k \in S : TRUE
       IN  (scale * ArrayGet(positions, 3 * k + 2) - shift)
             * (scale * ArrayGet(positions, 3 * k + 2) - shift)
           + SquaresSum(positions, S \ {k}, scale, shift)

\* the sum of the heights of the points of S
RECURSIVE HeightSum(_, _)
HeightSum(positions, S) ==
  IF S = {} THEN 0
  ELSE LET k == CHOOSE k \in S : TRUE
       IN  ArrayGet(positions, 3 * k + 2) + HeightSum(positions, S \ {k})

\* at least 10 points whose heights have a standard deviation below 0.5:
\* the mean of (z - mean) ^ 2 is below 0.25, heights counted in 1/Unit
IsFlatBucket(positions, S) ==
  /\ Cardinality(S) >= 10
  /\ 4 * SquaresSum(positions, S, Cardinality(S), HeightSum(positions, S))
       < Unit * Unit * Cardinality(S) * Cardinality(S) * Cardinality(S)

\* the planar distance from point k to the nearest point of S that does not
\* lie on it, as a set: empty when every other point of S lies on k
NeighbourDistances(positions, S, k) ==
  IF \A o \in S : DistanceSq(positions, k, o) = 0 THEN {}
  ELSE {FloorSqrt(Least({DistanceSq(positions, k, o) : o \in S} \ {0}) * Deci * Deci)}

\* the buckets the distances are to be taken from: the flat ones, or all
\* points when no bucket is flat
SourceBuckets(positions, cells) ==
  IF \E S \in Buckets(cells) : IsFlatBucket(positions, S)
  THEN {S \in Buckets(cells) : IsFlatBucket(positions, S)}
  ELSE {0..(Len(cells) - 1)}

SourceDistances(positions, cells) ==
  UNION {UNION {NeighbourDistances(positions, S, k) : k \in S} :
           S \in SourceBuckets(positions, cells)}

\* 25 samples of every bucket, or as many as it has points
RECURSIVE SamplesOf(_)
SamplesOf(buckets) ==
  IF buckets = {} THEN 0
  ELSE LET S == CHOOSE S \in buckets : TRUE
       IN  Min2(25, Cardinality(S)) + SamplesOf(buckets \ {S})

\* the ladder of the estimator: source are the buckets the distances are to
\* be taken from, distances the nearest-neighbour distances found in them,
\* area the planar area of the last rung
LadderFrom(positions, e, source, distances, area) ==
  /\ e.count <= SamplesOf(source)
  /\ (\A S \in source : \A k \in S : NeighbourDistances(positions, S, k) # {})
       => e.count = SamplesOf(source)
  /\ distances = {} => e.count = 0
  /\ e.count > 0 =>
       /\ e.value = e.sum \div e.count
       /\ e.count * Least(distances) <= e.sum
       /\ e.sum <= e.count * Greatest(distances)
  /\ e.count = 0 =>
       e.value = FloorSqrt((area * Deci * Deci) \div (Len(positions) \div 3))

FallbackLadder(positions, e, area) ==
  /\ e.flat = Cardinality({S \in Buckets(e.cells) : IsFlatBucket(positions, S)})
  /\ LadderFrom(positions, e, SourceBuckets(positions, e.cells),
                SourceDistances(positions, e.cells), area)

\* the extent of the points along one axis (0 or 1)
Extent(positions, axis) ==
  Greatest({ArrayGet(positions, 3 * k + axis) : k \in PointNumbers(positions)})
    - Least({ArrayGet(positions, 3 * k + axis) : k \in PointNumbers(positions)})

C20_UniformGridResolution ==
  lastCall.op = "resolution" =>
    Abs(Val(Val(probe).estimate).value - Unit * Deci) <= 1

----------------------------------------------------------------------------
(* Consistency of the modules after a Z inversion *)

\* C21: a colour snapshot, when there is one, holds the colours the point
\* cloud on display shows with no selection applied (those its load or its
\* last Z inversion gave it), and after a select or a restore every colour of
\* the cloud is the faded colour or that colour.
C21_SnapshotIsUnselectedColours ==
  /\ (~IsNull(originalColors) /\ ~IsNull(pointCloud)) =>
       Val(originalColors) = hist.plain
  /\ (lastCall.op \in {"select", "restore"} /\ ~IsNull(pointCloud)) =>
       \A i \in 1..Len(Val(pointCloud).colors) :
         Val(pointCloud).colors[i] \in {FadedColor, hist.plain[i]}

\* C22: once a file is loaded, the viewer, the selection module, the
\* measurement tool and the profile tool hold the same coordinate offset,
\* through every later load and Z inversion.
C22_OffsetsAgree ==
  (~IsNull(pointCloud) /\ ~isDefaultCloud) =>
    /\ coordinateOffset = viewerOffset
    /\ measurementTool.coordinateOffset = viewerOffset
    /\ profileTool.coordinateOffset = viewerOffset

----------------------------------------------------------------------------
(* The measurement tool and the profile tool *)

\* C23: while the measurement tool is active, a click that hits no point
\* leaves the tool as it is; a click that hits a point while the tool waits
\* for a first point stores that point as the start point and adds no
\* measurement; a click that hits a point while a start point is set adds
\* exactly one measurement, from the start point to the point hit, and
\* returns the tool to waiting for a first point (isFirstPoint true,
\* startPoint null).
C23_ClicksAlternate ==
  [][(lastCall'.op = "click" /\ measurementTool.isActive) =>
       IF IsNull(lastCall'.click)
       THEN measurementTool' = measurementTool
       ELSE IF measurementTool.isFirstPoint
       THEN /\ ~measurementTool'.isFirstPoint
            /\ measurementTool'.startPoint = lastCall'.click
            /\ measurementTool'.measurements = measurementTool.measurements
       ELSE /\ Len(measurementTool'.measurements)
                 = Len(measurementTool.measurements) + 1
            /\ SubSeq(measurementTool'.measurements, 1,
                      Len(measurementTool.measurements))
                 = measurementTool.measurements
            /\ measurementTool'.measurements[Len(measurementTool'.measurements)].startPoint
                 = Val(measurementTool.startPoint)
            /\ measurementTool'.measurements[Len(measurementTool'.measurements)].endPoint
                 = Val(lastCall'.click)
            /\ measurementTool'.isFirstPoint
            /\ IsNull(measurementTool'.startPoint)]_vars

\* the click that completed the second measurement between two different
\* points, the tool being active
C23_Witness ==
  /\ lastCall.op = "click"
  /\ ~IsNull(lastCall.click)
  /\ measurementTool.isActive
  /\ measurementTool.isFirstPoint
  /\ Len(measurementTool.measurements) = 2
  /\ measurementTool.measurements[2].startPoint # measurementTool.measurements[2].endPoint

\* C24: every stored measurement has a start marker and an end marker,
\* clearAllMeasurements never throws, and after it the list is empty and the
\* tool waits for a first point.
C24_MeasurementsHaveMarkers ==
  /\ \A i \in 1..Len(measurementTool.measurements) :
       /\ ~IsNull(measurementTool.measurements[i].startMarker)
       /\ ~IsNull(measurementTool.measurements[i].endMarker)
  /\ lastCall.op # "clearAllThrew"
  /\ lastCall.op = "clearAll" =>
       /\ measurementTool.measurements = <<>>
       /\ measurementTool.isFirstPoint
       /\ IsNull(measurementTool.startPoint)

\* the click handlers of the profile tool registered on the renderer element
ProfileHandlers(listeners) ==
  {i \in 1..Len(listeners) : listeners[i].tool = "profile"}

\* C25: at most one click handler of the profile tool is registered, and no
\* single click event takes the tool from no start point to a completed line
\* (start point and end point set).
C25_OneProfileHandler ==
  [][/\ Cardinality(ProfileHandlers(clickListeners')) <= 1
     /\ lastCall'.op = "click" =>
          ~(IsNull(profileTool.profileStartPoint)
            /\ ~IsNull(profileTool'.profileEndPoint))]_vars

\* C26: the measurement tool and the profile tool are never active together,
\* neither in the settings of the user interface nor in the tools.
C26_ToolsExclusive ==
  /\ ~(toolSettings.measurement /\ toolSettings.profile)
  /\ ~(measurementTool.isActive /\ profileTool.isDrawingMode)

----------------------------------------------------------------------------
(* Loading *)

\* C27: whenever the loading spinner is showing it is eventually hidden
\* again.
C27_SpinnerHidden == loader.spinner ~> ~loader.spinner

\* C28: no read is processed twice; when no explosion runs and no timer is
\* pending, every read that completed has been processed; and while a
\* processNewFile is pending the default cloud is not on display.
C28_ProcessedOnce ==
  /\ \A i \in 1..Len(loader.processed) : \A j \in 1..Len(loader.processed) :
       loader.processed[i] = loader.processed[j] => i = j
  /\ (loader.explosions = <<>> /\ loader.timers = <<>>) =>
       \A id \in 1..Len(loader.reads) :
         \E i \in 1..Len(loader.processed) : loader.processed[i] = id
  /\ loader.timers # <<>> => ~isDefaultCloud

----------------------------------------------------------------------------
(* Buffers of the parser *)

\* C29: every triple parseXYZFile writes lies inside the buffers as they are
\* allocated at that write, the buffers having been doubled at most once
\* since the write before; and the trimmed array holds exactly the triples
\* the regular expression matched, in the order of the text.
C29_WritesInsideBuffer ==
  ~IsNull(parsed) =>
    LET r == Val(parsed)
    IN  /\ Len(r.matches) = r.count
        /\ Len(r.positions) = 3 * r.count
        /\ \A k \in 1..Len(r.matches) :
             LET m == RegexExec(content, r.matches[k].from)
                 before == IF k = 1 THEN 3 * ((Len(content) + 19) \div 20)
                           ELSE r.matches[k - 1].length
             IN  /\ 3 * k <= r.matches[k].length
                 /\ r.matches[k].length \in {before, 2 * before}
                 /\ PointAt(r.positions, 3 * (k - 1)) = <<m.x, m.y, m.z>>
                 /\ k > 1 => r.matches[k - 1].to <= r.matches[k].from

\* three points were parsed with buffers that were too small for the first
\* and for the second of them
C29_Witness ==
  /\ lastCall.op = "parse"
  /\ Val(parsed).count = 3
  /\ Val(parsed).matches[1].length = 6
  /\ Val(parsed).matches[2].length = 12
  /\ Val(parsed).matches[3].length = 12

----------------------------------------------------------------------------
(* Histogram of the heights *)

RECURSIVE SumOfBins(_, _)
SumOfBins(bins, n) == IF n = 0 THEN 0 ELSE bins[n] + SumOfBins(bins, n - 1)

\* C30: the histogram has numBins bins and their counts sum to the number of
\* points, also when a point lies at maxZ and when all points have the same
\* height.
C30_BinsSumToPointCount ==
  lastCall.op = "histogram" =>
    LET bins == Val(Val(probe).histogram)
    IN  /\ Len(bins) = NumBins
        /\ SumOfBins(bins, NumBins) = Len(Val(probe).positions) \div 3

====
